---- MODULE Spec2Model ----
(***************************************************************************)
(* State-machine model of the qwen-code Zhipu integration:                 *)
(*   - AuthDialog (the terminal auth-selection panel), and                 *)
(*   - ZhipuContentGenerator (the vendor adapter: request conversion,      *)
(*     response conversion, generateContent, generateContentStream,        *)
(*     embedContent, countTokens).                                         *)
(* Each component has its own specification (SpecAuth, SpecConv, SpecGen,  *)
(* SpecStream, SpecEmbed; SpecAdapter and SpecGenerator for the calls      *)
(* together; SpecPair for two concurrent streaming calls); the variables   *)
(* of the other components stay at their initial values.                   *)
(*                                                                         *)
(* Text is modelled as a sequence of lexical tokens: "\n" is one token,    *)
(* the event prefix 'data: ' is two tokens, and a JSON text is one token   *)
(* looked up in JsonTable (what JSON.parse produces for it).  The stream   *)
(* decoder hands the tokens of a chunk on unchanged; a chunk may end       *)
(* anywhere between two tokens.                                            *)
(***************************************************************************)
EXTENDS Integers, Sequences, FiniteSets, TLC

VARIABLES
  \* ---- AuthDialog (React state, props, process.env, observed calls)
  errorMessage,          \* useState errorMessage (Null when none)
  showOpenAIKeyPrompt,   \* useState showOpenAIKeyPrompt
  showZhipuKeyPrompt,    \* useState showZhipuKeyPrompt
  selectedAuthType,      \* settings.merged.selectedAuthType (Undefined when unset)
  env,                   \* process.env: presence of the API-key variables and
                         \* the value of GEMINI_DEFAULT_AUTH_TYPE
  calls,                 \* calls the dialog made: setters and onSelect, in order
  lastEvent,             \* the input event the dialog handled last
  \* ---- convertToZhipuFormat applied to a request
  convRequest,           \* request.contents of the request under conversion
  convMessages,          \* the vendor messages produced (NotRun before the call)
  \* ---- generateContent
  method,                \* the method of the generator the caller invokes
  genRequest,            \* the request of the call
  genFetch,              \* what fetch / response.json() will produce
  genResult,             \* NotRun, or what the call returned / threw
  \* ---- shared by the adapter's calls
  posts,                 \* the bodies of the HTTP POSTs issued, in order
  telemetry,             \* the events handed to logApiResponse, in order
  \* ---- generateContentStream and its generator (the call's request and
  \*      fetch outcome are genRequest and genFetch)
  pos,                   \* how many tokens of the body have been read
  buffer,                \* the generator's line buffer
  lines,                 \* complete lines of the current chunk not yet handled
  pc,                    \* position of the call and of its generator
  out,                   \* fragments yielded to the consumer, in order
  released,              \* number of reader.releaseLock() calls
  afterRelease,          \* reads and yields performed after the release
  raised,                \* message of the error the generator raised to its
                         \* consumer (Null when none)
  \* ---- a second generateContentStream call on the same instance
  fields,                \* the instance fields: apiKey, model, embeddingModel, baseUrl
  second                 \* the second call: its body, its generator's position,
                         \* read offset, line buffer, pending lines and fragments

authVars == <<errorMessage, showOpenAIKeyPrompt, showZhipuKeyPrompt,
              selectedAuthType, env, calls, lastEvent>>
\* what a handler that returns early leaves alone
dialogState == <<errorMessage, showOpenAIKeyPrompt, showZhipuKeyPrompt,
                 selectedAuthType, env, calls>>
convVars == <<convRequest, convMessages>>
genVars == <<method, genRequest, genFetch, genResult, posts, telemetry>>
streamVars == <<pos, buffer, lines, pc, out, released, afterRelease, raised>>
pairVars == <<fields, second>>
vars == <<authVars, convVars, pairVars, genVars, streamVars>>

Null == "null"
Undefined == "undefined"
NotRun == [t |-> "notrun"]

(***************************************************************************)
(* AuthDialog                                                              *)
(***************************************************************************)
USE_OPENAI == "openai"
USE_ZHIPU == "zhipu"
USE_GEMINI == "gemini-api-key"
LOGIN_WITH_GOOGLE == "oauth-personal"

\* Object.values(AuthType): the members the dialog names
AuthTypeValues == {LOGIN_WITH_GOOGLE, USE_GEMINI, USE_OPENAI, USE_ZHIPU}

\* The two list items the dialog renders.
items == <<USE_OPENAI, USE_ZHIPU>>
ItemValues == {items[i] : i \in DOMAIN items}

\* parseDefaultAuthType: the value when it is a member of AuthType, else null
parseDefaultAuthType(defaultAuthType) ==
  IF defaultAuthType # Undefined /\ defaultAuthType \in AuthTypeValues
  THEN defaultAuthType ELSE Null

\* the auth type the findIndex callback compares every item with
WantedAuthType ==
  IF selectedAuthType # Undefined THEN selectedAuthType
  ELSE IF parseDefaultAuthType(env.GEMINI_DEFAULT_AUTH_TYPE) # Null
  THEN parseDefaultAuthType(env.GEMINI_DEFAULT_AUTH_TYPE)
  ELSE IF env.GEMINI_API_KEY THEN USE_GEMINI
  ELSE LOGIN_WITH_GOOGLE

\* Array.prototype.findIndex, 0-based; -1 when no item has the value
FindIndex(value) ==
  IF \E i \in DOMAIN items : items[i] = value
  THEN (CHOOSE i \in DOMAIN items :
          items[i] = value /\ \A j \in DOMAIN items : items[j] = value => i <= j) - 1
  ELSE -1

\* initialAuthIndex, computed at every render (0-based)
initialAuthIndex ==
  IF FindIndex(WantedAuthType) > 0 THEN FindIndex(WantedAuthType) ELSE 0

OpenAIKeyRequired == "OpenAI API key is required to use OpenAI authentication."
ZhipuKeyRequired == "Zhipu AI API key is required to use Zhipu AI authentication."
MustSelect == "You must select an auth method to proceed. Press Ctrl+C twice to exit."
InitialError == "initial error message"
MissingKey == "API key environment variable not found"
OtherValidation == "Invalid auth method selected."

\* Values a sub-view can submit.
ApiKeys == {"key"}
BaseUrls == {"url"}
Models == {"", "glm"}

\* Longest call log the model follows.
MaxCalls == 6

\* validateAuthMethod lives in config/auth.js: it reports the missing
\* credential of the selected method; with the credential present it reports
\* nothing or some other validation error (other).
validateAuthMethod(authMethod, other) ==
  IF authMethod = USE_OPENAI /\ ~env.OPENAI_API_KEY THEN MissingKey
  ELSE IF authMethod = USE_ZHIPU /\ ~env.ZHIPU_API_KEY THEN MissingKey
  ELSE other

\* onSelect is the parent's callback: the call is logged; the parent may
\* store the chosen method in the settings.
onSelect(authMethod, log) ==
  /\ Len(log) + 1 <= MaxCalls
  /\ calls' = log \o <<[fn |-> "onSelect", arg |-> authMethod]>>
  /\ \/ selectedAuthType' = selectedAuthType
     \/ authMethod # Undefined /\ selectedAuthType' = authMethod

\* The setters of config/auth.js: the call is logged; the setter may store
\* the key in process.env.
SetterEnv(name) == {env, [env EXCEPT ![name] = TRUE]}

\* A dialog that keeps the method list selectable over a sub-view.
ListView_Always == TRUE

ListView == ~showOpenAIKeyPrompt /\ ~showZhipuKeyPrompt

\* handleAuthSelect without the validation branch: always completes.
handleAuthSelect_NoValidation(authMethod) ==
  /\ ListView
  /\ lastEvent' = [op |-> "select", authMethod |-> authMethod]
  /\ errorMessage' = Null
  /\ onSelect(authMethod, calls)
  /\ UNCHANGED <<showOpenAIKeyPrompt, showZhipuKeyPrompt, env>>
  /\ UNCHANGED <<convVars, genVars, streamVars, pairVars>>

handleAuthSelect(authMethod) ==
  /\ ListView
  /\ lastEvent' = [op |-> "select", authMethod |-> authMethod]
  /\ \E other \in {Null, OtherValidation} :
       LET error == validateAuthMethod(authMethod, other) IN
       IF error # Null
       THEN IF authMethod = USE_OPENAI /\ ~env.OPENAI_API_KEY
            THEN /\ showOpenAIKeyPrompt' = TRUE
                 /\ errorMessage' = Null
                 /\ UNCHANGED <<showZhipuKeyPrompt, selectedAuthType, env, calls>>
            ELSE IF authMethod = USE_ZHIPU /\ ~env.ZHIPU_API_KEY
            THEN /\ showZhipuKeyPrompt' = TRUE
                 /\ errorMessage' = Null
                 /\ UNCHANGED <<showOpenAIKeyPrompt, selectedAuthType, env, calls>>
            ELSE /\ errorMessage' = error
                 /\ UNCHANGED <<showOpenAIKeyPrompt, showZhipuKeyPrompt,
                                selectedAuthType, env, calls>>
       ELSE /\ errorMessage' = Null
            /\ onSelect(authMethod, calls)
            /\ UNCHANGED <<showOpenAIKeyPrompt, showZhipuKeyPrompt, env>>
  /\ UNCHANGED <<convVars, genVars, streamVars, pairVars>>

handleOpenAIKeySubmit(apiKey, baseUrl, model) ==
  /\ showOpenAIKeyPrompt
  /\ lastEvent' = [op |-> "openaiSubmit", apiKey |-> apiKey, baseUrl |-> baseUrl,
                   model |-> model]
  /\ env' \in SetterEnv("OPENAI_API_KEY")
  /\ showOpenAIKeyPrompt' = FALSE
  /\ onSelect(USE_OPENAI,
              calls \o <<[fn |-> "setOpenAIApiKey", arg |-> apiKey],
                         [fn |-> "setOpenAIBaseUrl", arg |-> baseUrl],
                         [fn |-> "setOpenAIModel", arg |-> model]>>)
  /\ UNCHANGED <<errorMessage, showZhipuKeyPrompt>>
  /\ UNCHANGED <<convVars, genVars, streamVars, pairVars>>

handleOpenAIKeyCancel ==
  /\ showOpenAIKeyPrompt
  /\ lastEvent' = [op |-> "openaiCancel"]
  /\ showOpenAIKeyPrompt' = FALSE
  /\ errorMessage' = OpenAIKeyRequired
  /\ UNCHANGED <<showZhipuKeyPrompt, selectedAuthType, env, calls>>
  /\ UNCHANGED <<convVars, genVars, streamVars, pairVars>>

handleZhipuKeySubmit(apiKey, model) ==
  /\ ~showOpenAIKeyPrompt /\ showZhipuKeyPrompt
  /\ lastEvent' = [op |-> "zhipuSubmit", apiKey |-> apiKey, model |-> model]
  /\ env' \in SetterEnv("ZHIPU_API_KEY")
  /\ showZhipuKeyPrompt' = FALSE
  /\ onSelect(USE_ZHIPU,
              calls \o <<[fn |-> "setZhipuApiKey", arg |-> apiKey]>>
                    \o (IF model # "" THEN <<[fn |-> "setZhipuModel", arg |-> model]>>
                        ELSE <<>>))
  /\ UNCHANGED <<errorMessage, showOpenAIKeyPrompt>>
  /\ UNCHANGED <<convVars, genVars, streamVars, pairVars>>

\* handleZhipuKeyCancel that forgets the error message.
handleZhipuKeyCancel_NoMessage ==
  /\ ~showOpenAIKeyPrompt /\ showZhipuKeyPrompt
  /\ lastEvent' = [op |-> "zhipuCancel"]
  /\ showZhipuKeyPrompt' = FALSE
  /\ UNCHANGED <<errorMessage, showOpenAIKeyPrompt, selectedAuthType, env, calls>>
  /\ UNCHANGED <<convVars, genVars, streamVars, pairVars>>

handleZhipuKeyCancel ==
  /\ ~showOpenAIKeyPrompt /\ showZhipuKeyPrompt
  /\ lastEvent' = [op |-> "zhipuCancel"]
  /\ showZhipuKeyPrompt' = FALSE
  /\ errorMessage' = ZhipuKeyRequired
  /\ UNCHANGED <<showOpenAIKeyPrompt, selectedAuthType, env, calls>>
  /\ UNCHANGED <<convVars, genVars, streamVars, pairVars>>

\* useInput that lets escape leave the dialog while an error message shows.
useInput_NoErrorCheck(escape) ==
  /\ lastEvent' = [op |-> "key", escape |-> escape]
  /\ IF showOpenAIKeyPrompt \/ ~escape
     THEN UNCHANGED dialogState
     ELSE IF selectedAuthType = Undefined
     THEN /\ errorMessage' = MustSelect
          /\ UNCHANGED <<showOpenAIKeyPrompt, showZhipuKeyPrompt,
                         selectedAuthType, env, calls>>
     ELSE /\ onSelect(Undefined, calls)
          /\ UNCHANGED <<errorMessage, showOpenAIKeyPrompt, showZhipuKeyPrompt, env>>
  /\ UNCHANGED <<convVars, genVars, streamVars, pairVars>>

\* useInput without the "no auth method is set" check.
useInput_NoUnsetCheck(escape) ==
  /\ lastEvent' = [op |-> "key", escape |-> escape]
  /\ IF showOpenAIKeyPrompt \/ ~escape \/ errorMessage # Null
     THEN UNCHANGED dialogState
     ELSE /\ onSelect(Undefined, calls)
          /\ UNCHANGED <<errorMessage, showOpenAIKeyPrompt, showZhipuKeyPrompt, env>>
  /\ UNCHANGED <<convVars, genVars, streamVars, pairVars>>

\* The dialog's own useInput handler; escape says whether the key is escape.
useInput(escape) ==
  /\ lastEvent' = [op |-> "key", escape |-> escape]
  /\ IF showOpenAIKeyPrompt
     THEN UNCHANGED dialogState
     ELSE IF ~escape
     THEN UNCHANGED dialogState
     ELSE IF errorMessage # Null
     THEN UNCHANGED dialogState
     ELSE IF selectedAuthType = Undefined
     THEN /\ errorMessage' = MustSelect
          /\ UNCHANGED <<showOpenAIKeyPrompt, showZhipuKeyPrompt,
                         selectedAuthType, env, calls>>
     ELSE /\ onSelect(Undefined, calls)
          /\ UNCHANGED <<errorMessage, showOpenAIKeyPrompt, showZhipuKeyPrompt, env>>
  /\ UNCHANGED <<convVars, genVars, streamVars, pairVars>>

AuthIdle ==
  /\ errorMessage = Null
  /\ showOpenAIKeyPrompt = FALSE
  /\ showZhipuKeyPrompt = FALSE
  /\ selectedAuthType = Undefined
  /\ env = [OPENAI_API_KEY |-> FALSE, ZHIPU_API_KEY |-> FALSE,
            GEMINI_API_KEY |-> FALSE, GEMINI_DEFAULT_AUTH_TYPE |-> Undefined]
  /\ calls = <<>>
  /\ lastEvent = [op |-> "mount"]

ConvIdle == convRequest = NotRun /\ convMessages = NotRun
GenIdle ==
  /\ method = Null
  /\ genRequest = NotRun /\ genFetch = NotRun /\ genResult = NotRun
  /\ posts = <<>> /\ telemetry = <<>>
StreamIdle ==
  /\ pos = 0
  /\ buffer = <<>>
  /\ lines = <<>>
  /\ pc = "idle"
  /\ out = <<>>
  /\ released = 0
  /\ afterRelease = 0
  /\ raised = Null

\* values of GEMINI_DEFAULT_AUTH_TYPE: unset, a listed method, a member of
\* AuthType the dialog does not list, and a string that is no member
DefaultAuthTypes == {Undefined, USE_OPENAI, USE_ZHIPU, USE_GEMINI, "bogus"}

\* the fields as the constructor leaves them
ConstructedFields ==
  [apiKey |-> "key", model |-> "glm-4", embeddingModel |-> "embedding-2",
   baseUrl |-> "https://open.bigmodel.cn/api/paas/v4"]

\* no second call
NotCalled ==
  [pc |-> "idle", body |-> <<>>, pos |-> 0, buffer |-> <<>>, lines |-> <<>>,
   out |-> <<>>]
PairIdle == fields = ConstructedFields /\ second = NotCalled

InitAuth ==
  /\ errorMessage \in {Null, InitialError}
  /\ showOpenAIKeyPrompt = FALSE
  /\ showZhipuKeyPrompt = FALSE
  /\ selectedAuthType \in {Undefined} \cup ItemValues
  /\ env \in [OPENAI_API_KEY : BOOLEAN, ZHIPU_API_KEY : BOOLEAN,
              GEMINI_API_KEY : BOOLEAN, GEMINI_DEFAULT_AUTH_TYPE : DefaultAuthTypes]
  /\ calls = <<>>
  /\ lastEvent = [op |-> "mount"]
  /\ ConvIdle /\ GenIdle /\ StreamIdle /\ PairIdle

NextAuth ==
  \/ \E authMethod \in ItemValues : handleAuthSelect(authMethod)
  \/ \E apiKey \in ApiKeys, baseUrl \in BaseUrls, model \in Models :
       handleOpenAIKeySubmit(apiKey, baseUrl, model)
  \/ handleOpenAIKeyCancel
  \/ \E apiKey \in ApiKeys, model \in Models : handleZhipuKeySubmit(apiKey, model)
  \/ handleZhipuKeyCancel
  \/ \E escape \in BOOLEAN : useInput(escape)

SpecAuth == InitAuth /\ [][NextAuth]_vars

(***************************************************************************)
(* ZhipuContentGenerator: values                                           *)
(*                                                                         *)
(* A JS value that may be a string, an array or undefined is a tagged      *)
(* record (Str, Arr, Undef).  Names, ids, roles and finish reasons are     *)
(* plain strings, with Undefined for a missing one.  Text that the code    *)
(* concatenates, splits or parses is a sequence of tokens.                 *)
(***************************************************************************)
Undef == [t |-> "undefined"]
Str(s) == [t |-> "string", s |-> s]
Arr(a) == [t |-> "array", items |-> a]

\* rec.field, undefined when the object has no such property
Get(rec, field) == IF field \in DOMAIN rec THEN rec[field] ELSE Undef
GetName(rec, field) == IF field \in DOMAIN rec THEN rec[field] ELSE Undefined

\* All sequences over S of length 0..n.
SeqsUpTo(S, n) == UNION {[1..k -> S] : k \in 0..n}

RECURSIVE Concat(_)
\* textParts.join(''): the concatenation of a sequence of texts
Concat(ss) == IF ss = <<>> THEN <<>> ELSE Head(ss) \o Concat(Tail(ss))

\* JSON objects used as function-call arguments.
EmptyObject == [t |-> "object", keys |-> {}]
ArgsCity == [t |-> "object", keys |-> {"city"}]

\* JSON texts of function-call arguments.
ArgsCityText == <<"{\"city\":1}">>
EmptyObjectText == <<"{}">>
BadArgsText == <<"{\"city\":">>

FinishReasonSTOP == "STOP"
FinishReasonMAX_TOKENS == "MAX_TOKENS"
FinishReasonSAFETY == "SAFETY"
FinishReasonUNSPECIFIED == "FINISH_REASON_UNSPECIFIED"

\* mapZhipuFinishReason whose default case returns nothing.
mapZhipuFinishReason_NoDefault(zhipuReason) ==
  CASE zhipuReason = "stop" -> FinishReasonSTOP
    [] zhipuReason = "length" -> FinishReasonMAX_TOKENS
    [] zhipuReason = "content_filter" -> FinishReasonSAFETY
    [] OTHER -> Undefined

mapZhipuFinishReason(zhipuReason) ==
  CASE zhipuReason = "stop" -> FinishReasonSTOP
    [] zhipuReason = "length" -> FinishReasonMAX_TOKENS
    [] zhipuReason = "content_filter" -> FinishReasonSAFETY
    [] OTHER -> FinishReasonUNSPECIFIED

(***************************************************************************)
(* Vendor JSON: texts and the values JSON.parse gives for them             *)
(***************************************************************************)
\* tool_calls entries as the vendor sends them
ToolCallGood == [id |-> "call_1", type |-> "function",
                 function |-> [name |-> "get_weather", arguments |-> ArgsCityText]]
ToolCallBad == [id |-> "call_2", type |-> "function",
                function |-> [name |-> "get_time", arguments |-> BadArgsText]]
ToolCallEmpty == [id |-> "call_3", type |-> "function",
                  function |-> [name |-> "list_files", arguments |-> EmptyObjectText]]

UsageSample == [prompt_tokens |-> 3, completion_tokens |-> 5, total_tokens |-> 8]

\* streamed payloads
HeText == <<"{\"id\":\"s1\",\"choices\":[{\"index\":0,\"delta\":{\"content\":\"he\"}}]}">>
HeJson == [id |-> "s1", model |-> "glm-4",
           choices |-> <<[index |-> 0, delta |-> [content |-> Str(<<"he">>)]]>>]
LloText == <<"{\"id\":\"s1\",\"choices\":[{\"index\":0,\"delta\":{\"content\":\"llo\"}}]}">>
LloJson == [id |-> "s1", model |-> "glm-4",
            choices |-> <<[index |-> 0, delta |-> [content |-> Str(<<"llo">>)]]>>]
\* two choices whose indexes differ from their positions, finish reasons,
\* usage and top-level tool_calls
TwoText == <<"{\"id\":\"s2\",\"choices\":[{\"index\":1,..},{\"index\":0,..}],\"tool_calls\":[..]}">>
TwoJson == [id |-> "s2", model |-> "glm-4",
            choices |-> <<[index |-> 1, delta |-> [content |-> Str(<<"x">>)],
                           finish_reason |-> "stop"],
                          [index |-> 0, delta |-> [role |-> "assistant"],
                           finish_reason |-> "length"]>>,
            usage |-> UsageSample,
            tool_calls |-> <<ToolCallGood>>]
\* a delta whose content is an array holding a function_call with bad arguments
ArrBadText == <<"{\"id\":\"s3\",\"choices\":[{\"index\":0,\"delta\":{\"content\":[{function_call bad}]}}]}">>
ArrBadJson == [id |-> "s3", model |-> "glm-4",
               choices |-> <<[index |-> 0,
                 delta |-> [content |-> Arr(<<
                   [type |-> "function_call",
                    function_call |-> [name |-> "get_time", arguments |-> BadArgsText,
                                       id |-> "call_2"]]>>)]]>>]
\* a whole (non-delta) response object
FullText == <<"{\"id\":\"f1\",\"choices\":[{\"index\":0,\"message\":{\"content\":\"hello\"},..}]}">>
FullJson == [id |-> "f1", model |-> "glm-4",
             choices |-> <<[index |-> 0,
                            message |-> [role |-> "assistant", content |-> Str(<<"hello">>)],
                            finish_reason |-> "stop"]>>]

\* What JSON.parse returns for the texts it accepts; every other text is a
\* SyntaxError.
JsonTable ==
  (HeText :> HeJson) @@ (LloText :> LloJson) @@ (TwoText :> TwoJson) @@
  (ArrBadText :> ArrBadJson) @@ (FullText :> FullJson) @@
  (EmptyObjectText :> EmptyObject) @@ (ArgsCityText :> ArgsCity)

IsSpace(c) == c \in {" ", "\n", "\r"}

RECURSIVE TrimStart(_)
TrimStart(s) == IF s # <<>> /\ IsSpace(Head(s)) THEN TrimStart(Tail(s)) ELSE s

RECURSIVE TrimEnd(_)
TrimEnd(s) ==
  IF s # <<>> /\ IsSpace(s[Len(s)]) THEN TrimEnd(SubSeq(s, 1, Len(s) - 1)) ELSE s

\* String.prototype.trim
Trim(s) == TrimEnd(TrimStart(s))

\* JSON.parse: [ok |-> TRUE, v |-> value], or [ok |-> FALSE] for a SyntaxError.
\* Surrounding whitespace is ignored.
ParseTrimmed(text) ==
  IF text \in DOMAIN JsonTable THEN [ok |-> TRUE, v |-> JsonTable[text]]
  ELSE [ok |-> FALSE]
JSONParse(text) == ParseTrimmed(Trim(text))

\* JSON.stringify of a function-call arguments object
JSONStringify(v) ==
  IF v = EmptyObject THEN EmptyObjectText ELSE ArgsCityText

(***************************************************************************)
(* Response conversion                                                     *)
(***************************************************************************)
\* error.message of the errors the runtime raises
SyntaxErrorMessage == <<"Unexpected token in JSON">>
TypeErrorMessage == <<"Cannot read properties of undefined (reading 'map')">>
FetchFailedMessage == <<"fetch failed">>
\* what a rejected reader.read() carries
ReadFailedMessage == <<"terminated">>

\* The result of a conversion that can throw.
Threw == [threw |-> TRUE, message |-> SyntaxErrorMessage]
Parts(ps) == [threw |-> FALSE, parts |-> ps]

FunctionCallPart(id, name, args) ==
  [functionCall |-> [id |-> id, name |-> name, args |-> args]]

\* One iteration of the loop over a content array, given what the later
\* iterations give.  JSON.parse of a function_call item's arguments is not
\* guarded, so a SyntaxError leaves the method.
ParsedCallThenRest(call, parsed, rest) ==
  IF ~parsed.ok \/ rest.threw THEN Threw
  ELSE Parts(<<FunctionCallPart(GetName(call, "id"), call.name, parsed.v)>> \o rest.parts)

ItemThenRest(item, type, rest) ==
  IF type = "text"
  THEN IF rest.threw THEN Threw ELSE Parts(<<[text |-> item.text]>> \o rest.parts)
  ELSE IF type = "function_call"
  THEN ParsedCallThenRest(item.function_call,
                          JSONParse(item.function_call.arguments), rest)
  ELSE IF type = "function_response"
  THEN IF rest.threw THEN Threw
       ELSE Parts(<<[functionResponse |->
                       [id |-> GetName(item.function_response, "id"),
                        name |-> item.function_response.name,
                        response |-> item.function_response.content]]>> \o rest.parts)
  ELSE rest

RECURSIVE ContentItemsToParts(_)
\* the loop over a content array
ContentItemsToParts(its) ==
  IF its = <<>> THEN Parts(<<>>)
  ELSE ItemThenRest(Head(its), GetName(Head(its), "type"),
                    ContentItemsToParts(Tail(its)))

\* ToolCallToPart whose catch block only logs: a tool_call with bad
\* arguments is lost.
ToolCallToPart_DropBad(toolCall, parsed) ==
  IF parsed.ok
  THEN <<FunctionCallPart(toolCall.id, toolCall.function.name, parsed.v)>>
  ELSE <<>>

\* One iteration of the loop over tool_calls: a SyntaxError is caught and the
\* call is kept with empty arguments.
ToolCallToPart(toolCall, parsed) ==
  <<FunctionCallPart(toolCall.id, toolCall.function.name,
                     IF parsed.ok THEN parsed.v ELSE EmptyObject)>>

RECURSIVE ToolCallsToParts(_)
\* the loop over tool_calls
ToolCallsToParts(tcs) ==
  IF tcs = <<>> THEN <<>>
  ELSE ToolCallToPart(Head(tcs), JSONParse(Head(tcs).function.arguments))
         \o ToolCallsToParts(Tail(tcs))

\* `if (content)`: undefined and the empty string are falsy, an array is not
Truthy(content) ==
  /\ content.t # "undefined"
  /\ content.t = "string" => content.s # <<>>

\* the parts the content gives
ContentParts(content) ==
  IF ~Truthy(content) THEN Parts(<<>>)
  ELSE IF content.t = "string" THEN Parts(<<[text |-> content.s]>>)
  ELSE ContentItemsToParts(content.items)

\* the parts the tool_calls give
ToolCallParts(toolCalls) ==
  IF toolCalls.t = "array" /\ Len(toolCalls.items) > 0
  THEN ToolCallsToParts(toolCalls.items) ELSE <<>>

\* JoinParts with the two groups swapped.
JoinParts_ToolsFirst(fromContent, fromTools) ==
  IF fromContent.threw THEN Threw ELSE Parts(fromTools \o fromContent.parts)

\* parts is filled by the content block first, then by the tool_calls block
JoinParts(fromContent, fromTools) ==
  IF fromContent.threw THEN Threw ELSE Parts(fromContent.parts \o fromTools)

convertZhipuResponseToParts(content, toolCalls) ==
  JoinParts(ContentParts(content), ToolCallParts(toolCalls))

convertZhipuContentToParts(content) == convertZhipuResponseToParts(content, Undef)

\* an optional array property as the tagged value the converters take
OptArray(rec, field) == IF field \in DOMAIN rec THEN Arr(rec[field]) ELSE Undef

\* choice.message?.content and choice.delta?.content
MessageContent(choice) ==
  IF "message" \in DOMAIN choice THEN Get(choice.message, "content") ELSE Undef
DeltaContent(choice) ==
  IF "delta" \in DOMAIN choice THEN Get(choice.delta, "content") ELSE Undef

Candidate(choice, parts) ==
  [index |-> choice.index,
   content |-> [role |-> "model", parts |-> parts],
   finishReason |-> mapZhipuFinishReason(GetName(choice, "finish_reason"))]

\* pushes one candidate in front of those of the later choices
ConsCandidate(choice, conv, rest) ==
  IF conv.threw \/ rest.threw THEN Threw
  ELSE [threw |-> FALSE,
        candidates |-> <<Candidate(choice, conv.parts)>> \o rest.candidates]

RECURSIVE MapChoices(_, _, _)
\* zhipuResponse.choices.map(...): message selects choice.message?.content
\* with the response's tool_calls, otherwise choice.delta?.content alone
MapChoices(choices, message, toolCalls) ==
  IF choices = <<>> THEN [threw |-> FALSE, candidates |-> <<>>]
  ELSE ConsCandidate(Head(choices),
                     IF message
                     THEN convertZhipuResponseToParts(MessageContent(Head(choices)),
                                                      toolCalls)
                     ELSE convertZhipuContentToParts(DeltaContent(Head(choices))),
                     MapChoices(Tail(choices), message, toolCalls))

\* UsageMetadata with prompt and completion counts exchanged.
UsageMetadata_Swapped(usage) ==
  [promptTokenCount |-> usage.completion_tokens,
   candidatesTokenCount |-> usage.prompt_tokens,
   totalTokenCount |-> usage.total_tokens]

UsageMetadata(usage) ==
  [promptTokenCount |-> usage.prompt_tokens,
   candidatesTokenCount |-> usage.completion_tokens,
   totalTokenCount |-> usage.total_tokens]

\* the response object literal; withUsage: the branch copies usage when the
\* vendor sent it
BuildResponse(zhipuResponse, candidates, withUsage) ==
  LET base == [responseId |-> GetName(zhipuResponse, "id"),
               modelVersion |-> GetName(zhipuResponse, "model"),
               candidates |-> candidates]
  IN IF withUsage /\ "usage" \in DOMAIN zhipuResponse
     THEN base @@ [usageMetadata |-> UsageMetadata(zhipuResponse.usage)]
     ELSE base

ResponseOf(zhipuResponse, mapped, withUsage) ==
  IF mapped.threw THEN Threw
  ELSE [threw |-> FALSE,
        response |-> BuildResponse(zhipuResponse, mapped.candidates, withUsage)]

\* The GenerateContentResponse built from a parsed vendor response, or a
\* throw (choices missing: TypeError; a conversion threw).
ToResponse(zhipuResponse, message, withUsage) ==
  IF "choices" \notin DOMAIN zhipuResponse
  THEN [threw |-> TRUE, message |-> TypeErrorMessage]
  ELSE ResponseOf(zhipuResponse,
                  MapChoices(zhipuResponse.choices, message,
                             OptArray(zhipuResponse, "tool_calls")),
                  withUsage)

(***************************************************************************)
(* Request conversion                                                      *)
(***************************************************************************)
\* the role ternary of convertToZhipuFormat that passes 'model' through
ZhipuRole_ModelUnmapped(role) ==
  IF role = "user" THEN "user" ELSE IF role = "model" THEN "model" ELSE "system"

ZhipuRole(role) ==
  IF role = "user" THEN "user" ELSE IF role = "model" THEN "assistant" ELSE "system"

\* the else-if chain that classifies a part
IsTextPart(part) == "text" \in DOMAIN part /\ part.text # <<>>
IsFunctionCallPart(part) == ~IsTextPart(part) /\ "functionCall" \in DOMAIN part
IsFunctionResponsePart(part) ==
  /\ ~IsTextPart(part) /\ ~IsFunctionCallPart(part)
  /\ "functionResponse" \in DOMAIN part

FunctionCallItem(fc) ==
  [type |-> "function_call",
   function_call |-> [name |-> fc.name, arguments |-> JSONStringify(fc.args),
                      id |-> fc.id]]

FunctionResponseItem(fr) ==
  [type |-> "function_response",
   function_response |->
     [name |-> fr.name,
      content |-> IF fr.response.t = "string" THEN fr.response.s
                  ELSE JSONStringify(fr.response),
      id |-> fr.id]]

\* The messages pushed for one element of request.contents.
ContentToMessages(content) ==
  IF content.t = "string"
  THEN <<[role |-> "user", content |-> Str(content.s)]>>
  ELSE IF "role" \in DOMAIN content /\ "parts" \in DOMAIN content
  THEN
    LET texts == SelectSeq(content.parts, IsTextPart)
        textParts == [i \in 1..Len(texts) |-> texts[i].text]
        calls_ == SelectSeq(content.parts, IsFunctionCallPart)
        functionCalls == [i \in 1..Len(calls_) |-> calls_[i].functionCall]
        resps == SelectSeq(content.parts, IsFunctionResponsePart)
        functionResponses == [i \in 1..Len(resps) |-> resps[i].functionResponse]
        role == ZhipuRole(content.role)
    IN (IF Len(textParts) > 0
        THEN <<[role |-> role, content |-> Str(Concat(textParts))]>> ELSE <<>>)
       \o
       (IF Len(functionCalls) > 0
        THEN <<[role |-> role,
                content |-> Arr([i \in 1..Len(functionCalls) |->
                                   FunctionCallItem(functionCalls[i])])]>>
        ELSE <<>>)
       \o
       (IF Len(functionResponses) > 0
        THEN <<[role |-> role,
                content |-> Arr([i \in 1..Len(functionResponses) |->
                                   FunctionResponseItem(functionResponses[i])])]>>
        ELSE <<>>)
  ELSE <<>>

RECURSIVE ContentsToMessages(_)
ContentsToMessages(cs) ==
  IF cs = <<>> THEN <<>>
  ELSE ContentToMessages(Head(cs)) \o ContentsToMessages(Tail(cs))

\* convertToZhipuFormat: contents is request.contents; anything but an array
\* gives no message.
convertToZhipuFormat(contents) ==
  IF contents.t = "array" THEN ContentsToMessages(contents.items) ELSE <<>>

(***************************************************************************)
(* Requests                                                                *)
(***************************************************************************)
TextA == [text |-> <<"a">>]
TextB == [text |-> <<"b">>]
TextEmpty == [text |-> <<>>]
CallPart == [functionCall |-> [name |-> "get_weather", args |-> ArgsCity, id |-> "call_1"]]
ResponsePart == [functionResponse |->
                   [name |-> "get_weather", response |-> EmptyObject, id |-> "call_1"]]
InlinePart == [inlineData |-> "image/png"]

PartKinds == {TextA, TextB, TextEmpty, CallPart, ResponsePart, InlinePart}
Roles == {"user", "model", "system", "tool"}

\* Most parts in one content, and most contents in one request.
MaxParts == 2
MaxContents == 3

ContentObject(role, parts) == [t |-> "content", role |-> role, parts |-> parts]

\* every content the model converts on its own
AllItems ==
  {ContentObject(r, ps) : r \in Roles, ps \in SeqsUpTo(PartKinds, MaxParts)}
    \cup {[t |-> "content", parts |-> <<TextA>>]}
    \cup {Str(<<"a">>), Str(<<>>)}

\* the contents that requests of several contents are made of
CoreItems ==
  {ContentObject("user", <<TextA, TextB>>),
   ContentObject("model", <<TextB>>),
   ContentObject("system", <<TextEmpty>>),
   ContentObject("model", <<CallPart, TextA>>),
   ContentObject("user", <<ResponsePart>>),
   Str(<<"a">>)}

\* request.contents: a list of contents, one content, one string, or nothing
RequestContents ==
  {Arr(<<c>>) : c \in AllItems}
    \cup {Arr(cs) : cs \in SeqsUpTo(CoreItems, MaxContents)}
    \cup {ContentObject("user", <<TextA>>), Str(<<"a">>), Undef}

\* convertToZhipuFormat applied to the request drawn at the start
ConvertRequest ==
  /\ convMessages = NotRun
  /\ convMessages' = [t |-> "messages", messages |-> convertToZhipuFormat(convRequest)]
  /\ UNCHANGED <<convRequest, authVars, genVars, streamVars, pairVars>>

InitConv ==
  /\ convRequest \in RequestContents
  /\ convMessages = NotRun
  /\ AuthIdle /\ GenIdle /\ StreamIdle /\ PairIdle

NextConv == ConvertRequest

SpecConv == InitConv /\ [][NextConv]_vars

(***************************************************************************)
(* generateContent                                                         *)
(***************************************************************************)
ModelName == "glm-4"

\* extractToolsFromRequest: config.tools is read as one object with a
\* functionDeclarations array; anything else gives undefined
extractToolsFromRequest(request) ==
  IF request.config = Undef \/ "tools" \notin DOMAIN request.config THEN Undef
  ELSE
    LET tools == request.config.tools IN
    IF tools.t # "object" \/ "functionDeclarations" \notin DOMAIN tools THEN Undef
    ELSE Arr([i \in DOMAIN tools.functionDeclarations |->
                LET funcDecl == tools.functionDeclarations[i] IN
                [type |-> "function",
                 function |->
                   [name |-> funcDecl.name,
                    description |-> IF "description" \in DOMAIN funcDecl
                                    THEN funcDecl.description ELSE "",
                    parameters |-> IF "parameters" \in DOMAIN funcDecl
                                   THEN funcDecl.parameters ELSE EmptyObject]]])

\* JSON.stringify(zhipuRequest): an undefined tools property is left out
ZhipuRequest(request, stream) ==
  LET tools == extractToolsFromRequest(request)
      base == [model |-> ModelName,
               messages |-> convertToZhipuFormat(request.contents),
               stream |-> stream]
  IN IF tools = Undef THEN base ELSE base @@ [tools |-> tools.items]

ErrorPrefix == <<"Zhipu API error: ">>
StreamErrorPrefix == <<"Zhipu API streaming error: ">>

\* StatusMessage that leaves out the status text.
StatusMessage_NoStatusText(fetched) == ErrorPrefix \o <<fetched.status>>

\* `Zhipu API error: ${response.status} ${response.statusText}`
StatusMessage(fetched) == ErrorPrefix \o <<fetched.status, " ", fetched.statusText>>

ResponseEvent(response) ==
  IF "usageMetadata" \in DOMAIN response
  THEN [model |-> ModelName, usage_data |-> response.usageMetadata]
  ELSE [model |-> ModelName]

ErrorEvent(errorMessage_) == [model |-> ModelName, error |-> errorMessage_]

\* What the try block of generateContent ends with for a fetch outcome:
\* a response, or the message of the error thrown inside it.
TryGenerate(fetched) ==
  IF fetched.kind = "network" THEN [threw |-> TRUE, message |-> FetchFailedMessage]
  ELSE IF fetched.kind = "status" THEN [threw |-> TRUE, message |-> StatusMessage(fetched)]
  ELSE IF fetched.kind = "badjson" THEN [threw |-> TRUE, message |-> SyntaxErrorMessage]
  ELSE ToResponse(fetched.v, TRUE, TRUE)

\* One call; the fetch outcome is one a non-streaming request can have.
generateContent ==
  /\ method = "generateContent"
  /\ genResult = NotRun
  /\ genFetch.kind \in {"network", "status", "badjson", "json"}
  /\ posts' = Append(posts, ZhipuRequest(genRequest, FALSE))
  /\ LET tried == TryGenerate(genFetch) IN
     IF tried.threw
     THEN /\ telemetry' = Append(telemetry, ErrorEvent(tried.message))
          /\ genResult' = [t |-> "threw", message |-> ErrorPrefix \o tried.message]
     ELSE /\ telemetry' = Append(telemetry, ResponseEvent(tried.response))
          /\ genResult' = [t |-> "returned", response |-> tried.response]
  /\ UNCHANGED <<method, genRequest, genFetch, authVars, convVars, pairVars, streamVars>>

\* ---- inputs
\* Most choices and most tool_calls in one vendor response.
MaxChoices == 2
MaxToolCalls == 2

ChoiceSet ==
  {[index |-> 0, message |-> [role |-> "assistant", content |-> Str(<<"hello">>)],
    finish_reason |-> "stop"],
   [index |-> 1, message |-> [role |-> "assistant", content |-> Str(<<>>)],
    finish_reason |-> "length"],
   [index |-> 2,
    message |-> [role |-> "assistant",
                 content |-> Arr(<<[type |-> "text", text |-> <<"a">>],
                                   [type |-> "function_call",
                                    function_call |-> [name |-> "get_weather",
                                                       arguments |-> ArgsCityText]],
                                   [type |-> "function_response",
                                    function_response |-> [name |-> "get_weather",
                                                           content |-> <<"sunny">>,
                                                           id |-> "call_1"]]>>)],
    finish_reason |-> "content_filter"],
   [index |-> 3,
    message |-> [role |-> "assistant",
                 content |-> Arr(<<[type |-> "function_call",
                                    function_call |-> [name |-> "get_time",
                                                       arguments |-> BadArgsText,
                                                       id |-> "call_2"]]>>)],
    finish_reason |-> "tool_calls"],
   [index |-> 1, message |-> [role |-> "assistant"], finish_reason |-> ""],
   [index |-> 2, delta |-> [role |-> "assistant"], finish_reason |-> Null],
   [index |-> 0, delta |-> [content |-> Str(<<"he">>)]]}

ToolCallSet == {ToolCallGood, ToolCallBad, ToolCallEmpty}

VendorResponses ==
  LET withChoices ==
        {[id |-> "f1", model |-> ModelName, choices |-> cs] :
           cs \in SeqsUpTo(ChoiceSet, MaxChoices)}
      withTools ==
        withChoices \cup
        {r @@ [tool_calls |-> tcs] :
           r \in withChoices, tcs \in SeqsUpTo(ToolCallSet, MaxToolCalls)}
  IN withTools \cup {r @@ [usage |-> UsageSample] : r \in withTools}
       \cup {EmptyObject}

FetchOutcomes ==
  {[kind |-> "network"],
   [kind |-> "status", status |-> "500", statusText |-> "Internal Server Error"],
   [kind |-> "status", status |-> "401", statusText |-> "Unauthorized"],
   [kind |-> "badjson"]}
    \cup {[kind |-> "json", v |-> v] : v \in VendorResponses}

FunctionDeclarations ==
  <<[name |-> "get_weather", description |-> "weather of a city",
     parameters |-> ArgsCity],
    [name |-> "get_time"]>>

\* the requests generateContent and generateContentStream are called with
GenRequests ==
  {[contents |-> Arr(<<ContentObject("user", <<[text |-> <<"hi">>]>>)>>),
    config |-> Undef],
   [contents |-> Arr(<<ContentObject("user", <<TextA>>),
                       ContentObject("model", <<CallPart>>),
                       ContentObject("user", <<ResponsePart>>)>>),
    config |-> [t |-> "object",
                tools |-> Arr(<<[functionDeclarations |-> FunctionDeclarations]>>)]],
   [contents |-> Str(<<"a">>),
    config |-> [t |-> "object",
                tools |-> [t |-> "object",
                           functionDeclarations |-> FunctionDeclarations]]]}

InitGen ==
  /\ method = "generateContent"
  /\ genRequest \in GenRequests
  /\ genFetch \in FetchOutcomes
  /\ genResult = NotRun
  /\ posts = <<>>
  /\ telemetry = <<>>
  /\ AuthIdle /\ ConvIdle /\ StreamIdle /\ PairIdle

NextGen == generateContent

SpecGen == InitGen /\ [][NextGen]_vars

(***************************************************************************)
(* generateContentStream                                                   *)
(*                                                                         *)
(* pc: "idle" before the call; "failed" when the call threw; "created"     *)
(* when the generator was returned and not yet started; "running" while    *)
(* its body executes; "yielded" / "yieldedFinal" while it is suspended at  *)
(* the yield of the line loop / of the remaining-buffer block; then        *)
(* "closed" (ran to its end), "returned" (the consumer called return() at  *)
(* a yield), "unstarted" (return() before the first next()), or "threw"    *)
(* (a read rejected).                                                      *)
(***************************************************************************)
NL == "\n"
Prefix == <<"da", "ta: ">>
DoneSentinel == <<"[DONE]">>

\* line.startsWith('data: ') and line.slice(6)
StartsWithPrefix(line) ==
  Len(line) >= Len(Prefix) /\ SubSeq(line, 1, Len(Prefix)) = Prefix
SlicePrefix(line) == SubSeq(line, Len(Prefix) + 1, Len(line))

RECURSIVE Split(_)
\* text.split('\n'): the segments between newlines, at least one
Split(text) ==
  LET at == {i \in 1..Len(text) : text[i] = NL} IN
  IF at = {} THEN <<text>>
  ELSE LET first == CHOOSE i \in at : \A j \in at : i <= j IN
       <<SubSeq(text, 1, first - 1)>> \o Split(SubSeq(text, first + 1, Len(text)))

\* what a try block gives: a fragment to yield, or nothing (the catch block
\* logged the error)
Yielded(conv) ==
  IF conv.threw THEN [yields |-> FALSE]
  ELSE [yields |-> TRUE, response |-> conv.response]

ParsedFragment(parsed, message, withUsage) ==
  IF ~parsed.ok THEN [yields |-> FALSE]
  ELSE Yielded(ToResponse(parsed.v, message, withUsage))

\* LineFragment that reports the end of the stream as an empty fragment.
LineFragment_SentinelFragment(line) ==
  IF ~StartsWithPrefix(line) THEN [yields |-> FALSE]
  ELSE IF SlicePrefix(line) = DoneSentinel
  THEN [yields |-> TRUE,
        response |-> [responseId |-> Undefined, modelVersion |-> Undefined,
                      candidates |-> <<>>]]
  ELSE ParsedFragment(JSONParse(SlicePrefix(line)), FALSE, TRUE)

\* What handling one complete line gives: a fragment to yield, or nothing
\* (no prefix, the sentinel, or an error caught and logged).
LineFragment(line) ==
  IF ~StartsWithPrefix(line) THEN [yields |-> FALSE]
  ELSE IF SlicePrefix(line) = DoneSentinel THEN [yields |-> FALSE]
  ELSE ParsedFragment(JSONParse(SlicePrefix(line)), FALSE, TRUE)

\* A remaining-buffer block that handles the buffer as the loop handles a
\* complete line.
RemainderFragment_AsLine(rest) == LineFragment(rest)

\* What the remaining-buffer block gives after the stream ended.
RemainderFragment(rest) ==
  IF Trim(rest) = <<>> THEN [yields |-> FALSE]
  ELSE ParsedFragment(JSONParse(Trim(rest)), TRUE, FALSE)

\* the bytes response.body will deliver (none when there is no body)
Body == IF genFetch.kind = "stream" THEN genFetch.body ELSE <<>>

\* The call itself: one POST, then the checks before the generator is made.
generateContentStream ==
  /\ method = "generateContentStream"
  /\ pc = "idle" /\ genResult = NotRun
  /\ genFetch.kind \in {"network", "status", "nobody", "stream"}
  /\ posts' = Append(posts, ZhipuRequest(genRequest, TRUE))
  /\ IF genFetch.kind = "stream"
     THEN /\ pc' = "created"
          /\ genResult' = [t |-> "returned"]
          /\ UNCHANGED telemetry
     ELSE LET message ==
                IF genFetch.kind = "network" THEN FetchFailedMessage
                ELSE IF genFetch.kind = "status" THEN StatusMessage(genFetch)
                ELSE <<"Zhipu API response body is null">>
          IN /\ pc' = "failed"
             /\ telemetry' = Append(telemetry, ErrorEvent(message))
             /\ genResult' = [t |-> "threw", message |-> StreamErrorPrefix \o message]
  /\ UNCHANGED <<method, genRequest, genFetch, pos, buffer, lines, out, released,
                  afterRelease, raised>>
  /\ UNCHANGED <<authVars, convVars, pairVars>>

\* A generator without the finally block.
ReleaseLock_Never == released' = released

\* the finally block
ReleaseLock == released' = released + 1

\* counts a read or a yield that happens after the release
Touch == afterRelease' = IF released > 0 THEN afterRelease + 1 ELSE afterRelease

\* The consumer calls next().
ConsumerNext ==
  /\ pc \in {"created", "yielded", "yieldedFinal"}
  /\ IF pc = "yieldedFinal"
     THEN pc' = "closed" /\ ReleaseLock
     ELSE pc' = "running" /\ UNCHANGED released
  /\ UNCHANGED <<pos, buffer, lines, out, afterRelease>>
  /\ UNCHANGED <<authVars, convVars, pairVars, genVars, raised>>

\* The consumer stops pulling: return() on the generator.  A generator that
\* never started has not entered its try block, so its finally does not run.
ConsumerReturn ==
  /\ pc \in {"created", "yielded", "yieldedFinal"}
  /\ IF pc = "created"
     THEN pc' = "unstarted" /\ UNCHANGED released
     ELSE pc' = "returned" /\ ReleaseLock
  /\ UNCHANGED <<pos, buffer, lines, out, afterRelease>>
  /\ UNCHANGED <<authVars, convVars, pairVars, genVars, raised>>

\* ReadChunk that forgets the incomplete last line instead of keeping it in
\* the buffer.
ReadChunk_DropsPartial(n) ==
  /\ pc = "running" /\ lines = <<>>
  /\ pos + n <= Len(Body)
  /\ LET split == Split(buffer \o SubSeq(Body, pos + 1, pos + n)) IN
     lines' = SubSeq(split, 1, Len(split) - 1)
  /\ buffer' = <<>>
  /\ pos' = pos + n
  /\ Touch
  /\ UNCHANGED <<pc, out, released>>
  /\ UNCHANGED <<authVars, convVars, pairVars, genVars, raised>>

\* reader.read() resolves with the next n tokens of the body; the decoded
\* text is appended to the buffer and split into lines.
ReadChunk(n) ==
  /\ pc = "running" /\ lines = <<>>
  /\ pos + n <= Len(Body)
  /\ LET split == Split(buffer \o SubSeq(Body, pos + 1, pos + n)) IN
     /\ lines' = SubSeq(split, 1, Len(split) - 1)
     /\ buffer' = split[Len(split)]
  /\ pos' = pos + n
  /\ Touch
  /\ UNCHANGED <<pc, out, released>>
  /\ UNCHANGED <<authVars, convVars, pairVars, genVars, raised>>

\* The for loop handles the next complete line.
HandleLine ==
  /\ pc = "running" /\ lines # <<>>
  /\ LET fragment == LineFragment(Head(lines)) IN
     IF fragment.yields
     THEN /\ out' = Append(out, fragment.response)
          /\ pc' = "yielded"
          /\ Touch
     ELSE UNCHANGED <<out, pc, afterRelease>>
  /\ lines' = Tail(lines)
  /\ UNCHANGED <<pos, buffer, released>>
  /\ UNCHANGED <<authVars, convVars, pairVars, genVars, raised>>

\* reader.read() reports done: the remaining buffer gets its parse attempt.
ReadDone ==
  /\ pc = "running" /\ lines = <<>>
  /\ pos = Len(Body)
  /\ LET fragment == RemainderFragment(buffer) IN
     IF fragment.yields
     THEN /\ out' = Append(out, fragment.response)
          /\ pc' = "yieldedFinal"
          /\ UNCHANGED released
     ELSE /\ pc' = "closed"
          /\ ReleaseLock
          /\ UNCHANGED out
  /\ Touch
  /\ UNCHANGED <<pos, buffer, lines>>
  /\ UNCHANGED <<authVars, convVars, pairVars, genVars, raised>>

\* reader.read() rejects: the error leaves the generator through finally.
ReadThrows ==
  /\ pc = "running" /\ lines = <<>>
  /\ pc' = "threw"
  /\ ReleaseLock
  /\ Touch
  /\ raised' = ReadFailedMessage
  /\ UNCHANGED <<pos, buffer, lines, out>>
  /\ UNCHANGED <<authVars, convVars, pairVars, genVars>>

\* ---- inputs
\* Most lines in one body.
MaxLines == 3

\* a payload that is an error object: valid JSON without choices
ErrorObjectText == EmptyObjectText

LineSet ==
  {Prefix \o HeText, Prefix \o LloText, Prefix \o DoneSentinel,
   Prefix \o <<"{\"id\":">>, Prefix \o TwoText, Prefix \o ErrorObjectText,
   Prefix \o ArrBadText, <<>>}

\* what may follow the last newline: nothing, white space, a whole response
\* object, an error object, an unterminated `data: ` line, the sentinel
Remainders ==
  {<<>>, <<" ">>, FullText, ErrorObjectText, Prefix \o HeText, Prefix \o DoneSentinel}

RECURSIVE JoinLines(_)
JoinLines(ls) == IF ls = <<>> THEN <<>> ELSE Head(ls) \o <<NL>> \o JoinLines(Tail(ls))

\* bodies of at most MaxLines lines, the last one terminated or not
Bodies ==
  {JoinLines(ls) : ls \in SeqsUpTo(LineSet, MaxLines)}
    \cup {JoinLines(ls) \o r : ls \in SeqsUpTo(LineSet, MaxLines - 1),
                               r \in Remainders \ {<<>>}}

StreamFetchOutcomes ==
  {[kind |-> "network"],
   [kind |-> "status", status |-> "500", statusText |-> "Internal Server Error"],
   [kind |-> "nobody"]}
    \cup {[kind |-> "stream", body |-> b] : b \in Bodies}

StreamRequests ==
  {[contents |-> Arr(<<ContentObject("user", <<[text |-> <<"hi">>]>>)>>),
    config |-> Undef]}

InitStream ==
  /\ method = "generateContentStream"
  /\ genRequest \in StreamRequests
  /\ genFetch \in StreamFetchOutcomes
  /\ genResult = NotRun
  /\ posts = <<>>
  /\ telemetry = <<>>
  /\ pos = 0
  /\ buffer = <<>>
  /\ lines = <<>>
  /\ pc = "idle"
  /\ out = <<>>
  /\ released = 0
  /\ afterRelease = 0
  /\ raised = Null
  /\ AuthIdle /\ ConvIdle /\ PairIdle

NextStream ==
  \/ generateContentStream
  \/ ConsumerNext
  \/ ConsumerReturn
  \/ \E n \in 1..(Len(Body) - pos) : ReadChunk(n)
  \/ HandleLine
  \/ ReadDone
  \/ ReadThrows

SpecStream == InitStream /\ [][NextStream]_vars

\* generateContent and generateContentStream together
InitAdapter == InitGen \/ InitStream
NextAdapter == NextGen \/ NextStream
SpecAdapter == InitAdapter /\ [][NextAdapter]_vars

(***************************************************************************)
(* Two generateContentStream calls on one instance                         *)
(*                                                                         *)
(* reader, decoder and buffer are locals of generateContentStream that its *)
(* generator closes over, so a second call made while the first one is     *)
(* still being iterated has its own: `second` holds them.  The second      *)
(* call's fetch succeeds and its consumer iterates it to the end; the      *)
(* first call is the one modelled above, with all its outcomes.            *)
(***************************************************************************)
\* A generator whose line buffer is a field of the instance: the second
\* call splits what the first call left there.
SecondBuffer_Shared == buffer

\* the buffer the second call's generator closes over
SecondBuffer == second.buffer

\* the second call: POST, then a fresh reader, decoder and empty buffer
SecondCall(body) ==
  /\ method = "generateContentStream"
  /\ second = NotCalled
  /\ posts' = Append(posts, [ZhipuRequest(genRequest, TRUE) EXCEPT !.model = fields.model])
  /\ second' = [pc |-> "created", body |-> body, pos |-> 0, buffer |-> <<>>,
                lines |-> <<>>, out |-> <<>>]
  /\ UNCHANGED <<fields, method, genRequest, genFetch, genResult, telemetry>>
  /\ UNCHANGED <<authVars, convVars, streamVars>>

\* the second consumer calls next()
SecondNext ==
  /\ second.pc \in {"created", "yielded", "yieldedFinal"}
  /\ second' = [second EXCEPT !.pc = IF second.pc = "yieldedFinal" THEN "closed"
                                     ELSE "running"]
  /\ UNCHANGED <<fields, authVars, convVars, genVars, streamVars>>

\* the second reader resolves with the next n tokens of its body
SecondReadChunk(n) ==
  /\ second.pc = "running" /\ second.lines = <<>>
  /\ second.pos + n <= Len(second.body)
  /\ LET split == Split(SecondBuffer
                          \o SubSeq(second.body, second.pos + 1, second.pos + n)) IN
     second' = [second EXCEPT !.lines = SubSeq(split, 1, Len(split) - 1),
                              !.buffer = split[Len(split)],
                              !.pos = second.pos + n]
  /\ UNCHANGED <<fields, authVars, convVars, genVars, streamVars>>

\* the second generator handles its next complete line
SecondHandleLine ==
  /\ second.pc = "running" /\ second.lines # <<>>
  /\ LET fragment == LineFragment(Head(second.lines)) IN
     second' = IF fragment.yields
               THEN [second EXCEPT !.lines = Tail(second.lines),
                                   !.out = Append(second.out, fragment.response),
                                   !.pc = "yielded"]
               ELSE [second EXCEPT !.lines = Tail(second.lines)]
  /\ UNCHANGED <<fields, authVars, convVars, genVars, streamVars>>

\* the second reader reports done
SecondReadDone ==
  /\ second.pc = "running" /\ second.lines = <<>>
  /\ second.pos = Len(second.body)
  /\ LET fragment == RemainderFragment(SecondBuffer) IN
     second' = IF fragment.yields
               THEN [second EXCEPT !.out = Append(second.out, fragment.response),
                                   !.pc = "yieldedFinal"]
               ELSE [second EXCEPT !.pc = "closed"]
  /\ UNCHANGED <<fields, authVars, convVars, genVars, streamVars>>

\* the bodies of the two concurrent calls
PairBodies ==
  {JoinLines(<<Prefix \o HeText, Prefix \o LloText, Prefix \o DoneSentinel>>),
   JoinLines(<<Prefix \o TwoText>>) \o FullText,
   JoinLines(<<Prefix \o LloText, Prefix \o <<"{\"id\":">>>>)}

InitPair ==
  /\ InitStream
  /\ genFetch.kind = "stream" /\ genFetch.body \in PairBodies

NextPair ==
  \/ NextStream
  \/ \E body \in PairBodies : SecondCall(body)
  \/ SecondNext
  \/ \E n \in 1..(Len(second.body) - second.pos) : SecondReadChunk(n)
  \/ SecondHandleLine
  \/ SecondReadDone

SpecPair == InitPair /\ [][NextPair]_vars

(***************************************************************************)
(* countTokens and embedContent                                            *)
(***************************************************************************)
EmbeddingModel == "embedding-2"
EmbedErrorPrefix == <<"Zhipu Embedding API error: ">>

isContentWithParts(content) == content.t # "string" /\ "parts" \in DOMAIN content
isTextPart(part) == "text" \in DOMAIN part

\* content.parts.map(part => isTextPart(part) ? part.text : '').join('')
PartsText(parts) ==
  Concat([i \in DOMAIN parts |-> IF isTextPart(parts[i]) THEN parts[i].text ELSE <<>>])

\* the string one element of request.contents gives
EmbedItemText(content) ==
  IF content.t = "string" THEN content.s
  ELSE IF isContentWithParts(content) THEN PartsText(content.parts)
  ELSE <<>>

\* the `input` of the embedding request
EmbedInput(contents) ==
  IF contents.t = "array"
  THEN Arr([i \in DOMAIN contents.items |-> EmbedItemText(contents.items[i])])
  ELSE IF contents.t = "string" THEN Str(contents.s)
  ELSE IF contents.t = "content" /\ isContentWithParts(contents)
  THEN Str(PartsText(contents.parts))
  ELSE Str(<<>>)

\* `Zhipu Embedding API error: ${response.status} ${response.statusText}`
EmbedStatusMessage(fetched) ==
  EmbedErrorPrefix \o <<fetched.status, " ", fetched.statusText>>

\* zhipuResponse.data.map(item => ({ values: item.embedding }))
EmbeddingsOf(data) == [i \in DOMAIN data |-> [values |-> data[i].embedding]]

\* What the try block of embedContent ends with for a fetch outcome.
TryEmbed(fetched) ==
  IF fetched.kind = "network" THEN [threw |-> TRUE, message |-> FetchFailedMessage]
  ELSE IF fetched.kind = "status"
  THEN [threw |-> TRUE, message |-> EmbedStatusMessage(fetched)]
  ELSE IF fetched.kind = "badjson" THEN [threw |-> TRUE, message |-> SyntaxErrorMessage]
  ELSE IF "data" \notin DOMAIN fetched.v
  THEN [threw |-> TRUE, message |-> TypeErrorMessage]
  ELSE [threw |-> FALSE, response |-> [embeddings |-> EmbeddingsOf(fetched.v.data)]]

EmbedResult(tried) ==
  IF tried.threw THEN [t |-> "threw", message |-> EmbedErrorPrefix \o tried.message]
  ELSE [t |-> "returned", response |-> tried.response]

\* embedContent that sends the request once more after a failure.
embedContent_Retry ==
  /\ method = "embedContent"
  /\ genResult = NotRun
  /\ LET request == [model |-> EmbeddingModel, input |-> EmbedInput(genRequest.contents)]
     IN posts' = IF TryEmbed(genFetch).threw THEN posts \o <<request, request>>
                 ELSE Append(posts, request)
  /\ genResult' = EmbedResult(TryEmbed(genFetch))
  /\ UNCHANGED <<method, genRequest, genFetch, telemetry, authVars, convVars, pairVars, streamVars>>

embedContent ==
  /\ method = "embedContent"
  /\ genResult = NotRun
  /\ posts' = Append(posts, [model |-> EmbeddingModel,
                             input |-> EmbedInput(genRequest.contents)])
  /\ genResult' = EmbedResult(TryEmbed(genFetch))
  /\ UNCHANGED <<method, genRequest, genFetch, telemetry, authVars, convVars, pairVars, streamVars>>

countTokens ==
  /\ method = "countTokens"
  /\ genResult = NotRun
  /\ genResult' = [t |-> "returned", response |-> [totalTokens |-> 0]]
  /\ UNCHANGED <<method, genRequest, genFetch, posts, telemetry, authVars, convVars, pairVars,
                 streamVars>>

\* ---- inputs
\* Most items in request.contents of an embedding request, and most entries
\* in the vendor's data.
MaxEmbedItems == 2

EmbedItems ==
  {Str(<<"a">>), ContentObject("user", <<TextA, TextB>>),
   ContentObject("user", <<TextB, InlinePart>>), [t |-> "content", role |-> "user"]}

EmbedContents ==
  {Arr(cs) : cs \in SeqsUpTo(EmbedItems, MaxEmbedItems)}
    \cup {Str(<<"a">>), ContentObject("user", <<TextA, TextB>>), Undef}

\* vectors the vendor may return
VectorA == <<1, 0>>
VectorB == <<0, 1>>

\* entries of the vendor's data: a vector labelled with an input index
EmbeddingEntries ==
  {[embedding |-> e, index |-> i, object |-> "embedding"] :
     e \in {VectorA, VectorB}, i \in 0..(MaxEmbedItems - 1)}

EmbeddingResponses ==
  {[model |-> EmbeddingModel, data |-> d] : d \in SeqsUpTo(EmbeddingEntries, MaxEmbedItems)}
    \cup {EmptyObject}

EmbedFetchOutcomes ==
  {[kind |-> "network"],
   [kind |-> "status", status |-> "500", statusText |-> "Internal Server Error"],
   [kind |-> "badjson"]}
    \cup {[kind |-> "json", v |-> v] : v \in EmbeddingResponses}

InitEmbed ==
  /\ method \in {"embedContent", "countTokens"}
  /\ genRequest \in {[contents |-> c] : c \in EmbedContents}
  /\ genFetch \in EmbedFetchOutcomes
  /\ genResult = NotRun
  /\ posts = <<>>
  /\ telemetry = <<>>
  /\ AuthIdle /\ ConvIdle /\ StreamIdle /\ PairIdle

NextEmbed == embedContent \/ countTokens

SpecEmbed == InitEmbed /\ [][NextEmbed]_vars

\* every method of the generator
InitGenerator == InitGen \/ InitStream \/ InitEmbed
NextGenerator == NextGen \/ NextStream \/ NextEmbed
SpecGenerator == InitGenerator /\ [][NextGenerator]_vars

(***************************************************************************)
(* Claims about AuthDialog (checked under SpecAuth)                        *)
(***************************************************************************)
KeyAbsent(authMethod) ==
  IF authMethod = USE_OPENAI THEN ~env.OPENAI_API_KEY ELSE ~env.ZHIPU_API_KEY

\* the sub-view of authMethod is the one shown after the step
PromptShownNext(authMethod) ==
  IF authMethod = USE_OPENAI
  THEN showOpenAIKeyPrompt' /\ ~showZhipuKeyPrompt'
  ELSE showZhipuKeyPrompt' /\ ~showOpenAIKeyPrompt'

OnSelectCall(authMethod) == [fn |-> "onSelect", arg |-> authMethod]

\* C3: selecting a method whose credential variable is absent makes no call,
\* shows that provider's sub-view and clears the error message; submitting
\* the sub-view calls the provider's setters (OpenAI: key, base URL, model;
\* Zhipu: key, and model when given), then onSelect once with that method,
\* and hides the sub-view.
C3_SelectThenSubmit ==
  [][ /\ (lastEvent'.op = "select" /\ KeyAbsent(lastEvent'.authMethod)) =>
           /\ calls' = calls
           /\ PromptShownNext(lastEvent'.authMethod)
           /\ errorMessage' = Null
      /\ lastEvent'.op = "openaiSubmit" =>
           /\ calls' = calls \o
                <<[fn |-> "setOpenAIApiKey", arg |-> lastEvent'.apiKey],
                  [fn |-> "setOpenAIBaseUrl", arg |-> lastEvent'.baseUrl],
                  [fn |-> "setOpenAIModel", arg |-> lastEvent'.model],
                  OnSelectCall(USE_OPENAI)>>
           /\ ~showOpenAIKeyPrompt'
      /\ (lastEvent'.op = "zhipuSubmit" /\ lastEvent'.model # "") =>
           /\ calls' = calls \o
                <<[fn |-> "setZhipuApiKey", arg |-> lastEvent'.apiKey],
                  [fn |-> "setZhipuModel", arg |-> lastEvent'.model],
                  OnSelectCall(USE_ZHIPU)>>
           /\ ~showZhipuKeyPrompt'
      /\ (lastEvent'.op = "zhipuSubmit" /\ lastEvent'.model = "") =>
           /\ calls' = calls \o
                <<[fn |-> "setZhipuApiKey", arg |-> lastEvent'.apiKey],
                  OnSelectCall(USE_ZHIPU)>>
           /\ ~showZhipuKeyPrompt'
    ]_vars

\* C3 witness: a Zhipu sub-view opened for a missing key has been submitted
\* with a model.
C3_Witness ==
  /\ lastEvent.op = "zhipuSubmit"
  /\ calls = <<[fn |-> "setZhipuApiKey", arg |-> "key"],
               [fn |-> "setZhipuModel", arg |-> "glm"],
               OnSelectCall(USE_ZHIPU)>>
  /\ ~showZhipuKeyPrompt

EscapeWhileUnset ==
  lastEvent'.op = "key" /\ lastEvent'.escape /\ selectedAuthType = Undefined

\* C4 as stated: escape while no auth type is selected never calls onSelect,
\* and whenever no error message was showing it sets the "must select"
\* message, in every dialog state.
C4_Original ==
  [][ EscapeWhileUnset =>
        /\ calls' = calls
        /\ errorMessage = Null => errorMessage' = MustSelect ]_vars

\* C4 amended: escape while no auth type is selected never calls onSelect;
\* when no error message was showing and the OpenAI sub-view is not shown,
\* it sets the "must select" message (with the OpenAI sub-view shown the
\* dialog's handler ignores the key).
C4_EscapeWhileUnset ==
  [][ EscapeWhileUnset =>
        /\ calls' = calls
        /\ (errorMessage = Null /\ ~showOpenAIKeyPrompt) => errorMessage' = MustSelect
        /\ showOpenAIKeyPrompt => errorMessage' = errorMessage ]_vars

\* C4 witness: escape was pressed with nothing selected and the message is set.
C4_Witness ==
  /\ lastEvent = [op |-> "key", escape |-> TRUE]
  /\ selectedAuthType = Undefined
  /\ errorMessage = MustSelect
  /\ calls = <<>>

\* C10: cancelling a credential sub-view hides it, sets that provider's
\* "API key is required" message, returns to the list view and makes no call.
C10_CancelSubView ==
  [][ /\ lastEvent'.op = "openaiCancel" =>
           /\ showOpenAIKeyPrompt /\ ListView'
           /\ errorMessage' = OpenAIKeyRequired
           /\ calls' = calls
      /\ lastEvent'.op = "zhipuCancel" =>
           /\ showZhipuKeyPrompt /\ ListView'
           /\ errorMessage' = ZhipuKeyRequired
           /\ calls' = calls
    ]_vars

\* C10 witness: the Zhipu sub-view was cancelled.
C10_Witness ==
  /\ lastEvent.op = "zhipuCancel"
  /\ ListView
  /\ errorMessage = ZhipuKeyRequired

(***************************************************************************)
(* Claims about request conversion (checked under SpecConv)                *)
(***************************************************************************)
\* a content object with one of the three generic roles whose parts, at least
\* one, are all text parts
TextOnlyContent(c) ==
  /\ c.t = "content"
  /\ "role" \in DOMAIN c /\ c.role \in {"user", "model", "system"}
  /\ c.parts # <<>>
  /\ \A i \in DOMAIN c.parts : DOMAIN c.parts[i] = {"text"}

TextOnlyRequest ==
  /\ convRequest.t = "array"
  /\ \A i \in DOMAIN convRequest.items : TextOnlyContent(convRequest.items[i])

HasText(c) == \E i \in DOMAIN c.parts : c.parts[i].text # <<>>

VendorRoleOf(role) ==
  CASE role = "user" -> "user"
    [] role = "model" -> "assistant"
    [] role = "system" -> "system"

\* the text of a content: its parts' texts in order
OriginalText(c) == Concat([i \in DOMAIN c.parts |-> c.parts[i].text])

\* message m carries the role and, converted back to parts, the text of c
RoundTrips(c, m) ==
  LET back == convertZhipuResponseToParts(m.content, Undef) IN
  /\ m.role = VendorRoleOf(c.role)
  /\ ~back.threw
  /\ \A i \in DOMAIN back.parts : DOMAIN back.parts[i] = {"text"}
  /\ Concat([i \in DOMAIN back.parts |-> back.parts[i].text]) = OriginalText(c)

MessageForMessage ==
  /\ Len(convMessages.messages) = Len(convRequest.items)
  /\ \A i \in DOMAIN convRequest.items :
       RoundTrips(convRequest.items[i], convMessages.messages[i])

\* C7 as stated: every list of text-only contents converts to one vendor
\* message per content, with the role mapped and the text recovered by
\* converting the message content back to parts.
C7_Original ==
  (convMessages # NotRun /\ TextOnlyRequest) => MessageForMessage

\* C7 amended: the same for lists of text-only contents that each hold at
\* least one non-empty text part (a content without non-empty text produces
\* no vendor message).
C7_RoundTrip ==
  (/\ convMessages # NotRun
   /\ TextOnlyRequest
   /\ \A i \in DOMAIN convRequest.items : HasText(convRequest.items[i]))
  => MessageForMessage

\* C7 witness: a request of three text-only contents, one with two text
\* parts, has been converted.
C7_Witness ==
  /\ convMessages # NotRun
  /\ convRequest = Arr(<<ContentObject("model", <<TextB>>),
                         ContentObject("user", <<TextA, TextB>>),
                         ContentObject("model", <<TextB>>)>>)
  /\ MessageForMessage


(***************************************************************************)
(* Claims about generateContent (checked under SpecGen)                    *)
(***************************************************************************)
GenReturned == genFetch.kind = "json" /\ genResult.t = "returned"
GenThrew == genFetch.kind = "json" /\ genResult.t = "threw"
VendorChoices == genFetch.v.choices
VendorToolCalls ==
  IF "tool_calls" \in DOMAIN genFetch.v THEN genFetch.v.tool_calls ELSE <<>>
Candidates == genResult.response.candidates

\* the arguments texts that are valid JSON, and the objects they denote
ValidArgsTexts == {ArgsCityText, EmptyObjectText}
ExpectedArgs(text) == IF text = ArgsCityText THEN ArgsCity ELSE EmptyObject
ExpectedCallPart(tc) ==
  [functionCall |-> [id |-> tc.id, name |-> tc.function.name,
                     args |-> ExpectedArgs(tc.function.arguments)]]
HasBadToolCall ==
  \E j \in DOMAIN VendorToolCalls :
    VendorToolCalls[j].function.arguments \notin ValidArgsTexts

\* a content array holding a function_call item whose arguments do not parse
BadContentArray(choice) ==
  /\ MessageContent(choice).t = "array"
  /\ \E k \in DOMAIN MessageContent(choice).items :
       LET item == MessageContent(choice).items[k] IN
       /\ item.type = "function_call"
       /\ item.function_call.arguments \notin ValidArgsTexts

\* C5: a top-level tool_call whose arguments are not valid JSON still gives a
\* function-call part with its id and name and empty args: when
\* generateContent fails, the cause is elsewhere (no choices, or a content
\* array with bad arguments), and when it returns, every candidate's parts
\* are the content parts followed by one function-call part per tool_call in
\* order, bad ones included.
C5_BadToolCallArguments ==
  (genFetch.kind = "json" /\ genResult # NotRun /\ HasBadToolCall) =>
    /\ genResult.t = "threw" =>
         \/ "choices" \notin DOMAIN genFetch.v
         \/ \E i \in DOMAIN VendorChoices : BadContentArray(VendorChoices[i])
    /\ genResult.t = "returned" =>
         \A i \in DOMAIN Candidates :
           LET parts == Candidates[i].content.parts
               n == Len(parts)
               m == Len(VendorToolCalls)
           IN /\ n >= m
              /\ \A j \in 1..m : parts[n - m + j] = ExpectedCallPart(VendorToolCalls[j])
              /\ SubSeq(parts, 1, n - m)
                   = ContentParts(MessageContent(VendorChoices[i])).parts

C5_Witness ==
  /\ GenReturned
  /\ VendorToolCalls = <<ToolCallBad, ToolCallGood>>
  /\ Len(Candidates) = 1
  /\ Candidates[1].content.parts =
       <<[text |-> <<"hello">>],
         [functionCall |-> [id |-> "call_2", name |-> "get_time", args |-> EmptyObject]],
         [functionCall |-> [id |-> "call_1", name |-> "get_weather", args |-> ArgsCity]]>>

VendorReason(choice) ==
  IF "finish_reason" \in DOMAIN choice THEN choice.finish_reason ELSE Undefined

\* C6: every candidate's finish reason is STOP for "stop", MAX_TOKENS for
\* "length", SAFETY for "content_filter" and FINISH_REASON_UNSPECIFIED for
\* every other vendor value, a missing or null one included; it is never
\* undefined.
C6_FinishReasonTotal ==
  GenReturned =>
    \A i \in DOMAIN Candidates :
      LET reason == VendorReason(VendorChoices[i])
          mapped == Candidates[i].finishReason
      IN /\ mapped \in {FinishReasonSTOP, FinishReasonMAX_TOKENS, FinishReasonSAFETY,
                        FinishReasonUNSPECIFIED}
         /\ reason = "stop" => mapped = FinishReasonSTOP
         /\ reason = "length" => mapped = FinishReasonMAX_TOKENS
         /\ reason = "content_filter" => mapped = FinishReasonSAFETY
         /\ reason \notin {"stop", "length", "content_filter"}
              => mapped = FinishReasonUNSPECIFIED

C6_Witness ==
  /\ GenReturned
  /\ Len(Candidates) = 2
  /\ VendorReason(VendorChoices[1]) = Undefined
  /\ Candidates[1].finishReason = FinishReasonUNSPECIFIED
  /\ VendorReason(VendorChoices[2]) = Null
  /\ Candidates[2].finishReason = FinishReasonUNSPECIFIED

(***************************************************************************)
(* Claims about the stream generator (checked under SpecStream)            *)
(***************************************************************************)
\* the newline-terminated lines of the body, and what follows the last newline
BodyLines == SubSeq(Split(Body), 1, Len(Split(Body)) - 1)
BodyRest == Split(Body)[Len(Split(Body))]

SentinelLine == Prefix \o DoneSentinel

\* the body is made of newline-terminated lines and ends with the sentinel
TerminatedBySentinel ==
  /\ genFetch.kind = "stream"
  /\ BodyRest = <<>>
  /\ BodyLines # <<>>
  /\ BodyLines[Len(BodyLines)] = SentinelLine

ValidJson(text) == Trim(text) \in DOMAIN JsonTable

\* a `data: ` line whose payload is valid JSON other than the sentinel
ValidDataLine(line) ==
  /\ StartsWithPrefix(line)
  /\ SlicePrefix(line) # DoneSentinel
  /\ ValidJson(SlicePrefix(line))

\* ... and is a vendor response object: it has a choices array, and each
\* choice's delta content is text or absent
VendorResponseLine(line) ==
  /\ ValidDataLine(line)
  /\ LET v == JsonTable[Trim(SlicePrefix(line))] IN
     /\ "choices" \in DOMAIN v
     /\ \A i \in DOMAIN v.choices : DeltaContent(v.choices[i]).t # "array"

RECURSIVE Pick(_, _)
\* the lines of ls that are in keep, in order
Pick(ls, keep) ==
  IF ls = <<>> THEN <<>>
  ELSE (IF Head(ls) \in keep THEN <<Head(ls)>> ELSE <<>>) \o Pick(Tail(ls), keep)

ValidDataLines ==
  Pick(BodyLines, {BodyLines[i] : i \in {j \in DOMAIN BodyLines : ValidDataLine(BodyLines[j])}})
VendorResponseLines ==
  Pick(BodyLines,
       {BodyLines[i] : i \in {j \in DOMAIN BodyLines : VendorResponseLine(BodyLines[j])}})

\* the fragment a vendor response line stands for
FragmentOf(line) == ToResponse(JsonTable[Trim(SlicePrefix(line))], FALSE, TRUE).response

IsPrefixOf(a, b) == Len(a) <= Len(b) /\ a = SubSeq(b, 1, Len(a))

C2_ReaderReleased ==
  /\ pc \in {"closed", "returned", "threw"} => released = 1
  /\ pc \in {"created", "running", "yielded", "yieldedFinal"} => released = 0
  /\ afterRelease = 0

C2_Witness ==
  /\ pc = "returned"
  /\ released = 1
  /\ Len(out) = 1
  /\ pos < Len(Body)

SentinelScenario == JoinLines(<<Prefix \o HeText, Prefix \o LloText, SentinelLine>>)

TextsOf(fragments) ==
  [i \in DOMAIN fragments |-> fragments[i].candidates[1].content.parts[1].text]

\* C9: handling the sentinel line yields nothing and raises nothing, whether
\* the line is newline-terminated or the unterminated end of the body; and
\* for the body he, llo, sentinel the consumer has received exactly the
\* fragments "he" and "llo", in that order, when the generator ends.
C9_Sentinel ==
  [][/\ (pc = "running" /\ lines # <<>> /\ Head(lines) = SentinelLine)
          => (out' = out /\ pc' = "running")
     /\ (pc = "running" /\ lines = <<>> /\ Trim(buffer) = SentinelLine
           /\ pos = Len(Body) /\ pc' # "threw")
          => (out' = out /\ pc' = "closed")
     /\ (Body = SentinelScenario /\ pc' = "closed")
          => TextsOf(out') = <<<<"he">>, <<"llo">>>>]_vars

C9_Witness ==
  /\ Body = SentinelScenario
  /\ pc = "closed"
  /\ Len(out) = 2

(***************************************************************************)
(* Claims about both calls (checked under SpecAdapter)                     *)
(***************************************************************************)
\* the function-call parts' ids and names
CallIdsAndNames(parts) ==
  [j \in DOMAIN parts |->
     IF "functionCall" \in DOMAIN parts[j]
     THEN <<parts[j].functionCall.id, parts[j].functionCall.name>>
     ELSE <<>>]

\* the vendor responses the fragments yielded so far come from
FragmentSources ==
  IF TerminatedBySentinel
  THEN [i \in DOMAIN VendorResponseLines |->
          JsonTable[Trim(SlicePrefix(VendorResponseLines[i]))]]
  ELSE <<>>

\* C8: generateContent returns one candidate per vendor choice, in order,
\* with the choice's index, role "model" and the mapped finish reason; a
\* choice whose message content is a non-empty string gives that text as its
\* first part, followed by exactly one function-call part per top-level
\* tool_call in order.  Every streamed fragment has one candidate per choice
\* of its line, with the choice's index.
C8_CandidatePerChoice ==
  /\ GenReturned =>
       /\ Len(Candidates) = Len(VendorChoices)
       /\ \A i \in DOMAIN Candidates :
            LET choice == VendorChoices[i]
                parts == Candidates[i].content.parts
            IN /\ Candidates[i].index = choice.index
               /\ Candidates[i].content.role = "model"
               /\ Candidates[i].finishReason = mapZhipuFinishReason(VendorReason(choice))
               /\ (MessageContent(choice).t = "string" /\ MessageContent(choice).s # <<>>)
                    => /\ Len(parts) = 1 + Len(VendorToolCalls)
                       /\ parts[1] = [text |-> MessageContent(choice).s]
                       /\ CallIdsAndNames(Tail(parts))
                            = [j \in DOMAIN VendorToolCalls |->
                                 <<VendorToolCalls[j].id, VendorToolCalls[j].function.name>>]
  /\ \A k \in DOMAIN out :
       k <= Len(FragmentSources) =>
         /\ Len(out[k].candidates) = Len(FragmentSources[k].choices)
         /\ \A i \in DOMAIN out[k].candidates :
              out[k].candidates[i].index = FragmentSources[k].choices[i].index

C8_Witness ==
  /\ GenReturned
  /\ Len(VendorToolCalls) = 2
  /\ Len(Candidates) = 2
  /\ Candidates[1].index = 1
  /\ Candidates[2].index = 0
  /\ Len(Candidates[2].content.parts) = 3

(***************************************************************************)
(* Claims about generateContent's failures and telemetry (SpecGen)         *)
(***************************************************************************)
GenCalled == genResult # NotRun /\ genFetch.kind \in {"network", "status", "badjson", "json"}

\* the tokens of a text
TokensOf(text) == {text[i] : i \in DOMAIN text}

StartsWith(text, prefix) ==
  Len(text) >= Len(prefix) /\ SubSeq(text, 1, Len(prefix)) = prefix

\* C11: a non-2xx status, a network exception and a body that is not valid
\* JSON each make generateContent throw instead of returning a response; the
\* thrown message starts with the provider prefix and continues with the
\* cause, which for a non-2xx status holds the status and the status text.
C11_FailuresAreWrapped ==
  (GenCalled /\ genFetch.kind \in {"network", "status", "badjson"}) =>
    /\ genResult.t = "threw"
    /\ "response" \notin DOMAIN genResult
    /\ StartsWith(genResult.message, ErrorPrefix)
    /\ genFetch.kind = "network" => genResult.message = ErrorPrefix \o FetchFailedMessage
    /\ genFetch.kind = "badjson" => genResult.message = ErrorPrefix \o SyntaxErrorMessage
    /\ genFetch.kind = "status" =>
         {genFetch.status, genFetch.statusText} \subseteq TokensOf(genResult.message)

C11_Witness ==
  /\ genFetch.kind = "status"
  /\ genFetch.status = "401"
  /\ genResult.t = "threw"
  /\ genResult.message = ErrorPrefix \o ErrorPrefix \o <<"401", " ", "Unauthorized">>


\* C12: a generateContent call that completed has emitted exactly one
\* telemetry event: when it returned, an event without error message whose
\* usage data are the vendor's prompt, completion and total counts (no usage
\* data when the vendor sent none); when it threw, an event with the error
\* message and no usage data.  Before the call there is no event.
C12_OneTelemetryEvent ==
  /\ (genResult = NotRun /\ pc = "idle") => telemetry = <<>>
  /\ GenCalled =>
       /\ Len(telemetry) = 1
       /\ genResult.t = "returned" =>
            /\ "error" \notin DOMAIN telemetry[1]
            /\ "usage" \in DOMAIN genFetch.v =>
                 /\ "usage_data" \in DOMAIN telemetry[1]
                 /\ telemetry[1].usage_data.promptTokenCount = genFetch.v.usage.prompt_tokens
                 /\ telemetry[1].usage_data.candidatesTokenCount
                      = genFetch.v.usage.completion_tokens
                 /\ telemetry[1].usage_data.totalTokenCount = genFetch.v.usage.total_tokens
                 /\ genResult.response.usageMetadata = telemetry[1].usage_data
            /\ "usage" \notin DOMAIN genFetch.v =>
                 /\ "usage_data" \notin DOMAIN telemetry[1]
                 /\ "usageMetadata" \notin DOMAIN genResult.response
       /\ genResult.t = "threw" =>
            /\ "error" \in DOMAIN telemetry[1]
            /\ telemetry[1].error # <<>>
            /\ genResult.message = ErrorPrefix \o telemetry[1].error
            /\ "usage_data" \notin DOMAIN telemetry[1]

C12_Witness ==
  /\ GenCalled
  /\ genResult.t = "returned"
  /\ "usage" \in DOMAIN genFetch.v
  /\ telemetry = <<[model |-> ModelName,
                    usage_data |-> [promptTokenCount |-> 3, candidatesTokenCount |-> 5,
                                    totalTokenCount |-> 8]]>>


(***************************************************************************)
(* Claims about every method of the generator (SpecGenerator)              *)
(***************************************************************************)
CallFailed == genResult # NotRun /\ genResult.t = "threw"

\* C13: a call issues at most one POST whatever its outcome: after a network
\* error, a non-2xx status or a parse failure exactly one request was sent
\* and no other follows, also while the stream is consumed; countTokens
\* sends none and returns totalTokens 0.
C13_AtMostOnePost ==
  /\ Len(posts) <= 1
  /\ (method \in {"generateContent", "generateContentStream", "embedContent"}
        /\ genResult # NotRun) => Len(posts) = 1
  /\ method = "countTokens" =>
       /\ posts = <<>>
       /\ genResult # NotRun => genResult = [t |-> "returned",
                                              response |-> [totalTokens |-> 0]]

C13_Witness ==
  /\ method = "embedContent"
  /\ genFetch.kind = "status"
  /\ CallFailed
  /\ Len(posts) = 1


(***************************************************************************)
(* Claims about the tools of the vendor request (SpecGen)                  *)
(***************************************************************************)
\* request.config.tools is a list of tools, each holding functionDeclarations
ToolList(request) ==
  /\ request.config # Undef
  /\ "tools" \in DOMAIN request.config
  /\ request.config.tools.t = "array"

\* all declarations of a list of tools, in order
DeclarationsOf(tools) ==
  Concat([i \in DOMAIN tools |-> tools[i].functionDeclarations])

\* the vendor entry the claim describes for one declaration
ExpectedTool(funcDecl) ==
  [type |-> "function",
   function |->
     [name |-> funcDecl.name,
      description |-> IF "description" \in DOMAIN funcDecl THEN funcDecl.description ELSE "",
      parameters |-> IF "parameters" \in DOMAIN funcDecl THEN funcDecl.parameters
                     ELSE EmptyObject]]

\* C14: when config.tools is a list of tools holding function declarations,
\* the vendor request's tools has one {type: 'function'} entry per
\* declaration, in order, with name, description (or '') and parameters (or
\* {}); without tool declarations the vendor request has no tools.
C14_ToolsPassedThrough ==
  (method = "generateContent" /\ posts # <<>>) =>
    /\ ToolList(genRequest) =>
         /\ "tools" \in DOMAIN posts[1]
         /\ posts[1].tools =
              [i \in DOMAIN DeclarationsOf(genRequest.config.tools.items) |->
                 ExpectedTool(DeclarationsOf(genRequest.config.tools.items)[i])]
    /\ genRequest.config = Undef => "tools" \notin DOMAIN posts[1]


(***************************************************************************)
(* Claims about embedContent (SpecEmbed)                                   *)
(***************************************************************************)
EmbedReturned == method = "embedContent" /\ genResult # NotRun /\ genResult.t = "returned"

\* the vendor answered with one vector per input item, each labelled with
\* the index of its item
LabelledPerItem(data, n) ==
  /\ Len(data) = n
  /\ \A k \in 0..(n - 1) : \E j \in DOMAIN data : data[j].index = k

\* the vendor's vector for the item of index k
VectorLabelled(data, k) ==
  (CHOOSE item \in {data[j] : j \in DOMAIN data} : item.index = k).embedding

\* the text of a content item: its text parts joined
ItemText(item) ==
  IF item.t = "string" THEN item.s
  ELSE IF "parts" \notin DOMAIN item THEN <<>>
  ELSE Concat([i \in DOMAIN item.parts |->
                 IF "text" \in DOMAIN item.parts[i] THEN item.parts[i].text ELSE <<>>])

\* C15: for a list of N content items the request's input is the N item
\* texts in order, and the call returns N embeddings, the i-th being the
\* vector the vendor labelled with the index of the i-th item.
C15_EmbeddingsInInputOrder ==
  (EmbedReturned /\ genRequest.contents.t = "array"
     /\ LabelledPerItem(genFetch.v.data, Len(genRequest.contents.items))) =>
    LET contents == genRequest.contents.items
        embeddings == genResult.response.embeddings
    IN /\ Len(posts) = 1
       /\ posts[1].input = Arr([i \in DOMAIN contents |-> ItemText(contents[i])])
       /\ Len(embeddings) = Len(contents)
       /\ \A i \in DOMAIN contents :
            embeddings[i].values = VectorLabelled(genFetch.v.data, i - 1)


(***************************************************************************)
(* Claims about streamed tool calls and stream errors (SpecStream)         *)
(***************************************************************************)
SourceToolCalls(source) ==
  IF "tool_calls" \in DOMAIN source THEN source.tool_calls ELSE <<>>

\* the function-call parts among parts
FunctionCallsIn(parts) == SelectSeq(parts, LAMBDA part : "functionCall" \in DOMAIN part)

\* C16: a streamed fragment whose line carries top-level tool_calls has, in
\* each candidate, one function-call part per tool_call, in order, with the
\* tool_call's id and name.
C16_StreamedToolCalls ==
  \A k \in DOMAIN out :
    k <= Len(FragmentSources) =>
      \A i \in DOMAIN out[k].candidates :
        CallIdsAndNames(FunctionCallsIn(out[k].candidates[i].content.parts))
          = [j \in DOMAIN SourceToolCalls(FragmentSources[k]) |->
               <<SourceToolCalls(FragmentSources[k])[j].id,
                 SourceToolCalls(FragmentSources[k])[j].function.name>>]


\* ---- C17 ----
\* the error the call itself threw, as the caller of generateContentStream
\* receives it
StreamCallThrew ==
  method = "generateContentStream" /\ genResult # NotRun /\ genResult.t = "threw"

\* the error the returned generator raised while the consumer iterated it
StreamIterationThrew == pc = "threw"

\* C17: every error that reaches the caller of generateContentStream, at
\* call time or while the consumer iterates the returned generator, comes
\* after exactly one telemetry error event and carries the provider's
\* streaming prefix.
C17_StreamErrorsWrapped ==
  /\ StreamCallThrew =>
       /\ Len(telemetry) = 1
       /\ "error" \in DOMAIN telemetry[1]
       /\ StartsWith(genResult.message, StreamErrorPrefix)
  /\ StreamIterationThrew =>
       /\ Len(telemetry) = 1
       /\ "error" \in DOMAIN telemetry[1]
       /\ StartsWith(raised, StreamErrorPrefix)


\* ---- C18 ----
\* the step in which reader.read() reported done: the generator leaves the
\* read loop without an error
FlushStep == pc = "running" /\ pc' \in {"yieldedFinal", "closed"}

\* the remaining buffer is the JSON text of a vendor response object: it has
\* a choices array, and each choice's message content is text or absent
VendorResponseText(text) ==
  /\ ValidJson(text)
  /\ LET v == JsonTable[Trim(text)] IN
     /\ "choices" \in DOMAIN v
     /\ \A i \in DOMAIN v.choices : MessageContent(v.choices[i]).t # "array"

\* the fragment a remaining buffer stands for
FinalFragmentOf(text) == ToResponse(JsonTable[Trim(text)], TRUE, FALSE).response

\* the generator has ended, or is suspended at its last yield and ends at
\* the consumer's next call without yielding again
EndsAfter(before) ==
  /\ pc' \in {"closed", "returned"}
  /\ out' = before
  /\ raised' = Null

\* C18 as stated: a remaining buffer that parses as JSON gives exactly one
\* more fragment.
C18_Original ==
  [][(FlushStep /\ ValidJson(buffer)) => Len(out') = Len(out) + 1]_vars

\* C18: when the byte stream reports done every complete line has been
\* handled; a blank remaining buffer yields nothing; a non-blank one gets one
\* parse attempt and, if it is the JSON text of a vendor response object,
\* exactly one more fragment is yielded after all earlier ones; any other
\* remaining buffer (not JSON, or JSON that is no response object) yields
\* nothing and throws nothing; the generator then ends without reading or
\* yielding again.
C18_FlushThenClose ==
  [][/\ FlushStep =>
          /\ pos = Len(Body) /\ lines = <<>>
          /\ raised' = Null
          /\ UNCHANGED <<pos, buffer, telemetry, genResult>>
          /\ IF Trim(buffer) # <<>> /\ VendorResponseText(buffer)
             THEN /\ out' = Append(out, FinalFragmentOf(buffer))
                  /\ pc' = "yieldedFinal"
             ELSE /\ out' = out
                  /\ pc' = "closed"
     /\ pc = "yieldedFinal" => EndsAfter(out)
     /\ pc = "closed" => UNCHANGED <<pc, out, pos, raised>>]_vars

C18_Witness ==
  /\ pc = "closed"
  /\ BodyLines = <<Prefix \o HeText>>
  /\ BodyRest = FullText
  /\ Len(out) = 2
  /\ out[1].candidates[1].content.parts = <<[text |-> <<"he">>]>>
  /\ out[2].candidates[1].content.parts = <<[text |-> <<"hello">>]>>
  /\ raised = Null


(***************************************************************************)
(* Claims about convertToZhipuFormat, continued (checked under SpecConv)   *)
(***************************************************************************)
\* ---- C19 ----
\* the kind of a request part, as the vendor format knows it
PartKind(part) ==
  IF IsTextPart(part) THEN "text"
  ELSE IF IsFunctionCallPart(part) THEN "function_call"
  ELSE IF IsFunctionResponsePart(part) THEN "function_response"
  ELSE "none"

\* the kind of what a vendor message carries
MessageKind(message) ==
  IF message.content.t = "string" THEN "text" ELSE message.content.items[1].type

RECURSIVE KindRuns(_)
\* the kinds of the recognized parts in list order, a run of one kind
\* counted once (one vendor message carries the whole run)
KindRuns(parts) ==
  IF parts = <<>> THEN <<>>
  ELSE LET rest == KindRuns(Tail(parts))
           kind == PartKind(Head(parts)) IN
       IF kind = "none" THEN rest
       ELSE IF rest # <<>> /\ Head(rest) = kind THEN rest
       ELSE <<kind>> \o rest

RECURSIVE ExpectedOrder(_)
\* role and kind of what the vendor should receive, content after content
ExpectedOrder(cs) ==
  IF cs = <<>> THEN <<>>
  ELSE LET c == Head(cs) IN
       (IF c.t = "string" THEN <<[role |-> "user", kind |-> "text"]>>
        ELSE [i \in DOMAIN KindRuns(c.parts) |->
                [role |-> ZhipuRole(c.role), kind |-> KindRuns(c.parts)[i]]])
       \o ExpectedOrder(Tail(cs))

\* a list of contents that are strings or objects with a role and parts
ListOfContents ==
  /\ convRequest.t = "array"
  /\ \A i \in DOMAIN convRequest.items :
       \/ convRequest.items[i].t = "string" /\ convRequest.items[i].s # <<>>
       \/ /\ convRequest.items[i].t = "content"
          /\ {"role", "parts"} \subseteq DOMAIN convRequest.items[i]

\* C19: convertToZhipuFormat preserves order: the vendor messages follow the
\* order of the request's contents, and within one content the text,
\* function-call and function-response parts reach the vendor in the
\* relative order of the content's parts list.
C19_OrderPreserved ==
  (convMessages # NotRun /\ ListOfContents) =>
    [i \in DOMAIN convMessages.messages |->
       [role |-> convMessages.messages[i].role,
        kind |-> MessageKind(convMessages.messages[i])]]
      = ExpectedOrder(convRequest.items)


\* ---- C20 ----
\* an unrecognized kind: not a text, function-call or function-response part
Unrecognized(part) == DOMAIN part \cap {"text", "functionCall", "functionResponse"} = {}

RECURSIVE PartsIn(_)
\* the number of parts in the request's contents (a string content counts
\* as one)
PartsIn(cs) ==
  IF cs = <<>> THEN 0
  ELSE (IF Head(cs).t = "string" THEN 1 ELSE Len(Head(cs).parts)) + PartsIn(Tail(cs))

RECURSIVE PartsRepresented(_)
\* the number of parts the vendor messages stand for: the items of an array
\* content, and the texts joined into a string content (every text of the
\* requests is one token long)
PartsRepresented(messages) ==
  IF messages = <<>> THEN 0
  ELSE (IF Head(messages).content.t = "string" THEN Len(Head(messages).content.s)
        ELSE Len(Head(messages).content.items))
       + PartsRepresented(Tail(messages))

\* a list of contents with roles whose text parts are all non-empty
NoEmptyText ==
  /\ ListOfContents
  /\ \A i \in DOMAIN convRequest.items :
       convRequest.items[i].t = "content" =>
         \A k \in DOMAIN convRequest.items[i].parts :
           "text" \in DOMAIN convRequest.items[i].parts[k]
             => convRequest.items[i].parts[k].text # <<>>

\* the request without its parts of unrecognized kinds
WithoutUnrecognized(cs) ==
  [i \in DOMAIN cs |->
     IF cs[i].t = "string" THEN cs[i]
     ELSE [cs[i] EXCEPT !.parts = SelectSeq(cs[i].parts, LAMBDA p : ~Unrecognized(p))]]

HasUnrecognized ==
  \E i \in DOMAIN convRequest.items :
    /\ convRequest.items[i].t = "content"
    /\ \E k \in DOMAIN convRequest.items[i].parts :
         Unrecognized(convRequest.items[i].parts[k])

\* C20: no part of a request content is lost in convertToZhipuFormat: a part
\* of an unrecognized kind still contributes to some vendor message (the
\* messages differ from those of the request without it), and the vendor
\* messages stand for as many parts as the request holds.
C20_NoPartLost ==
  (convMessages # NotRun /\ NoEmptyText) =>
    /\ PartsRepresented(convMessages.messages) = PartsIn(convRequest.items)
    /\ HasUnrecognized =>
         convMessages.messages
           # convertToZhipuFormat(Arr(WithoutUnrecognized(convRequest.items)))


(***************************************************************************)
(* Claims about AuthDialog, continued (checked under SpecAuth)             *)
(***************************************************************************)
\* C25: in every reachable state of the dialog at most one credential
\* sub-view flag is set: showOpenAIKeyPrompt and showZhipuKeyPrompt are
\* never both true, and a flag is only ever raised by a selection made in
\* the list view.
C25_OneSubView ==
  /\ ~(showOpenAIKeyPrompt /\ showZhipuKeyPrompt)
  /\ (showOpenAIKeyPrompt \/ showZhipuKeyPrompt) =>
       lastEvent.op \in {"select", "key"}

\* C25 witness: a selection of Zhipu without its key opened the Zhipu
\* sub-view, and only that one.
C25_Witness ==
  /\ lastEvent = [op |-> "select", authMethod |-> USE_ZHIPU]
  /\ showZhipuKeyPrompt /\ ~showOpenAIKeyPrompt
  /\ ~env.ZHIPU_API_KEY


\* ---- C22 ----
\* the dialog's input handler handled an escape key in the list view
EscapeInListView == ListView /\ lastEvent' = [op |-> "key", escape |-> TRUE]

CancelCall == [fn |-> "onSelect", arg |-> Undefined]

\* C22: in the list view, escape invokes onSelect(undefined, User) if and
\* only if no error message is showing and the settings have a selected auth
\* type; with an error message showing, escape changes nothing (message,
\* sub-view flags and call log unchanged), configured auth type or not; and
\* in the list view only a selection makes a showing error message go away.
C22_EscapeInListView ==
  [][ /\ EscapeInListView =>
           /\ (calls' # calls) <=> (errorMessage = Null /\ selectedAuthType # Undefined)
           /\ calls' # calls => calls' = Append(calls, CancelCall)
           /\ errorMessage # Null => UNCHANGED <<errorMessage, showOpenAIKeyPrompt,
                                                 showZhipuKeyPrompt, calls,
                                                 selectedAuthType, env>>
           /\ UNCHANGED <<showOpenAIKeyPrompt, showZhipuKeyPrompt>>
      /\ (ListView /\ errorMessage # Null /\ errorMessage' # errorMessage) =>
           lastEvent'.op = "select"
    ]_vars

\* C22 witness: with Zhipu configured and no message showing, escape in the
\* list view cancelled the dialog.
C22_Witness ==
  /\ lastEvent = [op |-> "key", escape |-> TRUE]
  /\ ListView
  /\ errorMessage = Null
  /\ selectedAuthType = USE_ZHIPU
  /\ calls = <<CancelCall>>

\* C22 witness, blocked case: an error message is showing, an auth type is
\* configured, escape was pressed and nothing was called.
C22_Blocked ==
  /\ lastEvent = [op |-> "key", escape |-> TRUE]
  /\ ListView
  /\ errorMessage = InitialError
  /\ selectedAuthType = USE_OPENAI
  /\ calls = <<>>


\* ---- C24 ----
\* the dialog's input handler handled an escape key while a credential
\* sub-view was shown
EscapeInSubView ==
  /\ showOpenAIKeyPrompt \/ showZhipuKeyPrompt
  /\ lastEvent' = [op |-> "key", escape |-> TRUE]

\* C24: while either credential sub-view is shown the dialog is modal: an
\* escape key handled by the dialog's own input handler neither invokes
\* onSelect nor changes the error message, and the sub-view stays.
C24_SubViewModal ==
  [][ EscapeInSubView =>
        UNCHANGED <<calls, errorMessage, showOpenAIKeyPrompt, showZhipuKeyPrompt>>
    ]_vars


\* ---- C23 ----
\* the item highlighted when the list is rendered
Highlighted == items[initialAuthIndex + 1]

\* the listed methods whose API-key environment variable is present
MethodsWithKey ==
  {m \in ItemValues : \/ m = USE_OPENAI /\ env.OPENAI_API_KEY
                      \/ m = USE_ZHIPU /\ env.ZHIPU_API_KEY}

ValidOverride ==
  env.GEMINI_DEFAULT_AUTH_TYPE # Undefined
    /\ env.GEMINI_DEFAULT_AUTH_TYPE \in AuthTypeValues

\* the type the precedence rule chooses: Null when no rule applies
\* (NoChoice), a set of candidates when API keys decide
ChosenTypes ==
  IF selectedAuthType # Undefined THEN {selectedAuthType}
  ELSE IF ValidOverride THEN {env.GEMINI_DEFAULT_AUTH_TYPE}
  ELSE MethodsWithKey

\* C23: the initially highlighted item is the settings' selected auth type
\* when set (environment ignored); otherwise a valid default-auth-type
\* override; otherwise the method matching a present API-key variable; the
\* index is always a valid index into the list, and is the first item when
\* the chosen type is not listed.
C23_InitialIndexPrecedence ==
  /\ initialAuthIndex \in 0..(Len(items) - 1)
  /\ ChosenTypes \cap ItemValues # {} => Highlighted \in ChosenTypes
  /\ ChosenTypes \cap ItemValues = {} => initialAuthIndex = 0


(***************************************************************************)
(* Claims about the two calls, continued (checked under SpecAdapter)       *)
(***************************************************************************)
\* ---- C28 ----
\* the parts of a candidate that are function calls with empty arguments
EmptyArgsCalls(parts) ==
  {k \in DOMAIN parts : /\ "functionCall" \in DOMAIN parts[k]
                        /\ parts[k].functionCall.args = EmptyObject}

\* a streamed line whose delta content array holds a function_call item
\* with unparsable arguments
BadArgumentsLine == Prefix \o ArrBadText

\* C28: a function_call item inside a content array whose arguments are not
\* valid JSON degrades to a function-call part with empty arguments:
\* generateContent returns such a part instead of failing, and a streamed
\* line holding such an item yields its fragment like any other line.
C28_BadArgumentsInContent ==
  /\ (/\ method = "generateContent" /\ genResult # NotRun
      /\ genFetch.kind = "json" /\ "choices" \in DOMAIN genFetch.v
      /\ \E i \in DOMAIN VendorChoices : BadContentArray(VendorChoices[i]))
     => /\ genResult.t = "returned"
        /\ \A i \in DOMAIN VendorChoices :
             BadContentArray(VendorChoices[i]) =>
               EmptyArgsCalls(Candidates[i].content.parts) # {}
  /\ (/\ method = "generateContentStream" /\ TerminatedBySentinel /\ pc = "closed"
      /\ \A i \in DOMAIN BodyLines :
           BodyLines[i] \in {BadArgumentsLine, SentinelLine} \/ VendorResponseLine(BodyLines[i]))
     => Len(out) = Len(ValidDataLines)


(***************************************************************************)
(* Claims about convertToZhipuFormat, shapes of contents (SpecConv)        *)
(***************************************************************************)
\* ---- C29 ----
\* the contents of the request as a list, whatever its shape
ContentsAsList ==
  IF convRequest.t = "array" THEN convRequest.items
  ELSE IF convRequest.t = "undefined" THEN <<>>
  ELSE <<convRequest>>

\* a content carries non-empty text
CarriesText(content) ==
  IF content.t = "string" THEN content.s # <<>>
  ELSE \E k \in DOMAIN content.parts : IsTextPart(content.parts[k])

\* a content carries a text, a function call or a function response
CarriesSomething(content) ==
  \/ CarriesText(content)
  \/ content.t = "content" /\ \E k \in DOMAIN content.parts : PartKind(content.parts[k]) # "none"

\* C29: convertToZhipuFormat yields at least one vendor message for every
\* request that carries non-empty text, whether contents is a list of
\* contents, one content object or one string (a string gives one 'user'
\* message with that text); the messages are empty only when the request
\* carries no text, function call or function response.
C29_EveryShapeConverted ==
  convMessages # NotRun =>
    /\ (\E i \in DOMAIN ContentsAsList : CarriesText(ContentsAsList[i]))
         => Len(convMessages.messages) >= 1
    /\ convRequest.t = "string" /\ convRequest.s # <<>>
         => convMessages.messages = <<[role |-> "user", content |-> Str(convRequest.s)]>>
    /\ convMessages.messages = <<>>
         => \A i \in DOMAIN ContentsAsList : ~CarriesSomething(ContentsAsList[i])


(***************************************************************************)
(* Claims about the chunking of a streamed body (checked under SpecStream) *)
(***************************************************************************)
\* ---- C26 ----
RECURSIVE FragmentsOfLines(_)
\* the fragments a list of complete lines gives, in order
FragmentsOfLines(ls) ==
  IF ls = <<>> THEN <<>>
  ELSE (IF LineFragment(Head(ls)).yields THEN <<LineFragment(Head(ls)).response>>
        ELSE <<>>)
       \o FragmentsOfLines(Tail(ls))

\* the fragments of the whole body text, taken as one piece: those of its
\* complete lines, then that of what follows the last newline
WholeBodyFragments ==
  FragmentsOfLines(BodyLines)
    \o (IF RemainderFragment(BodyRest).yields
        THEN <<RemainderFragment(BodyRest).response>> ELSE <<>>)

\* the transport split the body inside a line: the buffer carries the
\* beginning of a line across two reads
SplitInsideLine == pc = "running" /\ lines = <<>> /\ buffer # <<>> /\ pos < Len(Body)

\* ... inside the `data: ` prefix
SplitInsidePrefix == SplitInsideLine /\ buffer = <<Prefix[1]>>

\* C26: the fragments generateContentStream yields depend only on the body
\* text, not on how the transport splits it into chunks: under every
\* chunking, splits inside a line or inside the `data: ` prefix included,
\* the fragments yielded so far are a prefix of those of the whole body, and
\* a generator that ran to its end has yielded all of them, in the same
\* number, order and content.
C26_ChunkingIndependent ==
  genFetch.kind = "stream" =>
    /\ IsPrefixOf(out, WholeBodyFragments)
    /\ pc \in {"closed", "yieldedFinal"} => out = WholeBodyFragments

\* C26 witness: of the body he, llo, sentinel the first line has been
\* handled and its fragment yielded; the chunk ended inside the `data: `
\* prefix of the second line, which the buffer carries to the next read.
C26_Witness ==
  /\ SplitInsidePrefix
  /\ Body = SentinelScenario
  /\ TextsOf(out) = <<<<"he">>>>


\* ---- C27 ----
\* C27: a `data: ` line with a valid non-sentinel JSON payload yields the
\* same fragment whether it arrives newline-terminated or as the last,
\* unterminated line of the body: when the generator has run to its end,
\* the fragments are those of the body's lines with the remainder handled
\* as one more line.
C27_UnterminatedLastLine ==
  (/\ genFetch.kind = "stream"
   /\ VendorResponseLine(BodyRest)
   /\ pc \in {"closed", "yieldedFinal"})
  => out = FragmentsOfLines(BodyLines \o <<BodyRest>>)


(***************************************************************************)
(* Claims about concurrent calls (checked under SpecPair)                  *)
(***************************************************************************)
\* ---- C21 ----
\* the fragments a call yields when it runs alone and to its end
FragmentsAlone(body) ==
  FragmentsOfLines(SubSeq(Split(body), 1, Len(Split(body)) - 1))
    \o (IF RemainderFragment(Split(body)[Len(Split(body))]).yields
        THEN <<RemainderFragment(Split(body)[Len(Split(body))]).response>>
        ELSE <<>>)

\* both generators are between two reads, each with a line carried in its
\* own buffer
BothMidLine ==
  /\ pc = "running" /\ lines = <<>> /\ buffer # <<>>
  /\ second.pc = "running" /\ second.lines = <<>> /\ second.buffer # <<>>

\* C21: two generateContentStream calls on one instance whose reads and
\* yields interleave in any order each yield the fragments they would yield
\* alone: at every moment a prefix of them, and all of them once the
\* generator has run to its end; apiKey, model, embeddingModel and baseUrl
\* keep the values the constructor gave them.
C21_CallsDoNotInterfere ==
  /\ fields = ConstructedFields
  /\ genFetch.kind = "stream" =>
       /\ IsPrefixOf(out, FragmentsAlone(Body))
       /\ pc \in {"closed", "yieldedFinal"} => out = FragmentsAlone(Body)
  /\ IsPrefixOf(second.out, FragmentsAlone(second.body))
  /\ second.pc \in {"closed", "yieldedFinal"} => second.out = FragmentsAlone(second.body)

\* C21 witness: both calls ran interleaved to their ends on different
\* bodies, and each consumer has its own fragments.
C21_Witness ==
  /\ pc = "closed" /\ second.pc = "closed"
  /\ Body = SentinelScenario
  /\ second.body = JoinLines(<<Prefix \o TwoText>>) \o FullText
  /\ TextsOf(out) = <<<<"he">>, <<"llo">>>>
  /\ Len(second.out) = 2
  /\ second.out # out

====
